---------------------------- MODULE Spec2Model ----------------------------
(***************************************************************************)
(* Model of the worktree lifecycle manager of aristar-worktrees:           *)
(*   - path security (worktrees/operations.rs, worktrees/external_apps.rs) *)
(*   - the worktree inventory parser and the lifecycle operations          *)
(*     (worktrees/operations.rs)                                           *)
(*   - the task / agent store (agent_manager/*.rs)                         *)
(*                                                                         *)
(* A path is the sequence of its components below the root directory, so   *)
(* <<"h", "w">> is /h/w and <<>> is /.  ".." is Rust's ParentDir           *)
(* component; "." and repeated separators never reach a component list     *)
(* (std::path::Components drops them).                                     *)
(***************************************************************************)
EXTENDS Integers, Sequences, FiniteSets, TLC

VARIABLES
    \* ---- path security (SpecPath) ----
    p_dirs,     \* directories that exist on disk (canonical paths)
    p_links,    \* symbolic links: canonical location -> canonical target
    p_dirs0,    \* p_dirs as it was before the call
    p_path,     \* the candidate / destination_path argument
    p_bases,    \* the allowed_bases argument (a sequence of paths)
    p_pc,       \* position inside the call
    p_res,      \* result of validate_path_within_bases
    p_git,      \* TRUE once `git worktree add` has been invoked
    p_ret,      \* what create_worktree_at_path returned
    \* ---- custom commands (SpecCmd) ----
    c_cmd,      \* the cmd argument, a sequence of characters
    c_exists,   \* whether Path::new(cmd).exists()
    c_pc,       \* "start" or "done"
    c_ret,      \* what validate_custom_command returned
    \* ---- git and the worktree inventory (SpecList, SpecWt) ----
    g_dirs,     \* directories that exist on disk
    g_main,     \* the repository's own entry: [bare, branch]
    g_wts,      \* git's linked worktree entries, in listing order
    g_branches, \* the repository's local branches
    g_arg,      \* SpecList: the repo_path argument
    g_pc,       \* SpecList: "start" or "done"
    g_out,      \* SpecList: what list_worktrees returned
    w_last,     \* SpecWt: the last lifecycle operation and its result
    \* ---- the task store (Spec) ----
    t_tasks,    \* store.tasks: the in-memory task list
    t_file,     \* the task list last written to tasks.json
    t_cleanup,  \* a cleanup_unaccepted_agents call in progress
    t_remove,   \* a remove_agent_from_task call in progress
    t_last,     \* the accept_agent or cleanup call that returned last
    t_faults,   \* worktrees damaged from outside so far
    \* ---- the store locks (SpecLock) ----
    l_pc,       \* per thread: the operation it runs and its position in it
    l_locks,    \* per lock: the <<thread, mode>> pairs that hold it
    l_sub,      \* the threads whose subprocess is running
    \* ---- the OpenCode servers (SpecErrors) ----
    o_instances, \* OpenCodeManager.instances: the worktree paths with a server
    \* ---- concurrent create calls (SpecRace) ----
    k_calls,    \* per thread: the create_worktree call it runs
    \* ---- the repository store (SpecStore) ----
    s_store     \* AppState.store for the repository, and the saved store file

pathVars == <<p_dirs, p_links, p_dirs0, p_path, p_bases, p_pc, p_res, p_git, p_ret>>

cmdVars == <<c_cmd, c_exists, c_pc, c_ret>>

gitVars == <<g_dirs, g_main, g_wts, g_branches>>

listVars == <<g_arg, g_pc, g_out>>

wtVars == <<w_last>>

taskVars == <<t_tasks, t_file, t_cleanup, t_remove, t_last, t_faults>>

lockVars == <<l_pc, l_locks, l_sub>>

openVars == <<o_instances>>

raceVars == <<k_calls>>

storeVars == <<s_store>>

vars == <<pathVars, cmdVars, gitVars, listVars, wtVars, taskVars, lockVars,
          openVars, raceVars, storeVars>>

\* what the actions of one specification leave alone
notPath == <<cmdVars, gitVars, listVars, wtVars, taskVars, lockVars, openVars, raceVars, storeVars>>

notCmd == <<pathVars, gitVars, listVars, wtVars, taskVars, lockVars, openVars, raceVars, storeVars>>

notList == <<pathVars, cmdVars, wtVars, taskVars, lockVars, openVars, raceVars, storeVars>>

notWt == <<pathVars, cmdVars, listVars, taskVars, lockVars, openVars, raceVars, storeVars>>

notTask == <<pathVars, cmdVars, listVars, wtVars, lockVars, openVars, raceVars, storeVars>>

notTaskOpen == <<pathVars, cmdVars, listVars, wtVars, lockVars, raceVars, storeVars>>

notRace == <<pathVars, cmdVars, listVars, wtVars, taskVars, lockVars, openVars,
            storeVars>>

notLock == <<pathVars, cmdVars, gitVars, listVars, wtVars, taskVars, openVars, raceVars, storeVars>>

-----------------------------------------------------------------------------
(* Bounds *)

MaxDepth == 4       \* longest candidate path, in components

MaxTail == 2        \* characters of a command after its directory prefix

MaxLinked == 2      \* linked worktrees of the repository

MaxThreads == 2     \* threads that run store operations at the same time

-----------------------------------------------------------------------------
\* the element of a one-element set: The({e(x) : x \in {v}}) is e(v), with v
\* computed once
The(S) == CHOOSE x \in S : TRUE

-----------------------------------------------------------------------------
(* std::path::Path *)

ParentDir == ".."

Root == <<>>

\* Path::parent of a path with at least one component
Parent(p) == SubSeq(p, 1, Len(p) - 1)

\* Path::file_name: None when the path ends in `..` (or is the root)
HasFileName(p) == Len(p) > 0 /\ p[Len(p)] # ParentDir

FileName(p) == p[Len(p)]

\* Path::starts_with: component-wise prefix, `..` is a component like any other
StartsWith(p, base) == Len(base) <= Len(p) /\ SubSeq(p, 1, Len(base)) = base

\* Path::strip_prefix, for a base that is a prefix
StripPrefix(p, base) == SubSeq(p, Len(base) + 1, Len(p))

\* PathBuf::join of a relative path
Join(p, rel) == p \o rel

\* the first component of an absolute path (std::path::Component::RootDir)
RootDir == "/"

\* PathBuf::join of any path: an absolute path replaces the base
PathJoin(p, q) == IF q # <<>> /\ Head(q) = RootDir THEN Tail(q) ELSE p \o q

-----------------------------------------------------------------------------
(* The filesystem: fs = [dirs |-> set of paths, links |-> function] *)

NoPath == [ok |-> FALSE, path |-> <<>>]

SomePath(p) == [ok |-> TRUE, path |-> p]

\* Path::canonicalize (realpath): every component must exist; a symbolic link
\* is followed; `..` is the parent of the directory actually reached.
RECURSIVE Resolve(_, _, _)
Resolve(fs, cur, rest) ==
    IF rest = <<>> THEN SomePath(cur)
    ELSE The({
        IF Head(rest) = ParentDir
        THEN The({Resolve(fs, up, Tail(rest)) :
                    up \in {IF cur = Root THEN Root ELSE Parent(cur)}})
        ELSE IF nxt \in DOMAIN fs.links
        THEN IF fs.links[nxt] \in fs.dirs
             THEN Resolve(fs, fs.links[nxt], Tail(rest))
             ELSE NoPath
        ELSE IF nxt \in fs.dirs
        THEN Resolve(fs, nxt, Tail(rest))
        ELSE NoPath
        : nxt \in {Append(cur, Head(rest))}})

Canonicalize(fs, p) == Resolve(fs, Root, p)

\* Path::exists follows symbolic links, like canonicalize
Exists(fs, p) == Canonicalize(fs, p).ok

\* The location a path names once `..` and symbolic links are resolved,
\* whether or not it exists yet: where mkdir -p and git put it.
RECURSIVE Locate(_, _, _)
Locate(fs, cur, rest) ==
    IF rest = <<>> THEN cur
    ELSE The({
        IF Head(rest) = ParentDir
        THEN The({Locate(fs, up, Tail(rest)) :
                    up \in {IF cur = Root THEN Root ELSE Parent(cur)}})
        ELSE IF nxt \in DOMAIN fs.links
        THEN Locate(fs, fs.links[nxt], Tail(rest))
        ELSE Locate(fs, nxt, Tail(rest))
        : nxt \in {Append(cur, Head(rest))}})

Location(fs, p) == Locate(fs, Root, p)

-----------------------------------------------------------------------------
(* validate_path_within_bases *)

Ok(p) == [ok |-> TRUE, path |-> p, err |-> "none"]

Err(e) == [ok |-> FALSE, path |-> <<>>, err |-> e]

\* allowed_bases.iter().any(|base| base.canonicalize().ok()
\*     .map(|cb| check.starts_with(&cb)).unwrap_or(false))
WithinBases(fs, check, bases) ==
    \E i \in 1..Len(bases) :
        /\ Canonicalize(fs, bases[i]).ok
        /\ StartsWith(check, Canonicalize(fs, bases[i]).path)

\* the `while !ancestor.exists()` walk: the root always exists
RECURSIVE ExistingAncestor(_, _)
ExistingAncestor(fs, a) ==
    IF Exists(fs, a) \/ a = Root THEN a ELSE ExistingAncestor(fs, Parent(a))

validate_path_within_bases(fs, path, bases) ==
    IF Exists(fs, path)
    THEN LET check == Canonicalize(fs, path).path
         IN  IF WithinBases(fs, check, bases) THEN Ok(check) ELSE Err("traversal")
    ELSE IF Len(path) = 0 THEN Err("no parent")
    ELSE IF ~HasFileName(path) THEN Err("no filename")
    ELSE LET parent   == Parent(path)
             filename == <<FileName(path)>>
         IN  IF ~Exists(fs, parent)
             THEN LET ancestor  == ExistingAncestor(fs, parent)
                      canonical == Canonicalize(fs, ancestor).path
                      relative  == StripPrefix(parent, ancestor)
                      check     == Join(Join(canonical, relative), filename)
                  IN  IF ~WithinBases(fs, canonical, bases) THEN Err("traversal")
                      ELSE IF WithinBases(fs, check, bases) THEN Ok(check)
                      ELSE Err("traversal")
             ELSE LET check == Join(Canonicalize(fs, parent).path, filename)
                  IN  IF WithinBases(fs, check, bases) THEN Ok(check)
                      ELSE Err("traversal")


-----------------------------------------------------------------------------
(* create_worktree_at_path, and the filesystem calls it makes *)

Home == <<"h">>

\* get_aristar_worktrees_base: ~/.aristar-worktrees
AristarBase == Join(Home, <<"w">>)

\* get_allowed_worktree_bases: the managed directory, then the home directory
get_allowed_worktree_bases == <<AristarBase, Home>>

\* mkdir(2) of one path whose parent resolves: an existing directory (or a
\* link to one) is accepted by create_dir_all, a dangling link is an error
Mkdir(fs, p) ==
    LET loc == Append(Canonicalize(fs, Parent(p)).path, FileName(p))
    IN  IF ~HasFileName(p) \/ loc \in fs.dirs THEN [ok |-> TRUE, fs |-> fs]
        ELSE IF loc \in DOMAIN fs.links
        THEN [ok |-> fs.links[loc] \in fs.dirs, fs |-> fs]
        ELSE [ok |-> TRUE, fs |-> [fs EXCEPT !.dirs = @ \cup {loc}]]

\* std::fs::create_dir_all: mkdir, and on NotFound the parent first
RECURSIVE create_dir_all(_, _)
create_dir_all(fs, p) ==
    IF p = Root THEN [ok |-> TRUE, fs |-> fs]
    ELSE IF Exists(fs, Parent(p)) THEN Mkdir(fs, p)
    ELSE LET up == create_dir_all(fs, Parent(p))
         IN  IF ~up.ok THEN up
             ELSE IF Exists(up.fs, Parent(p)) THEN Mkdir(up.fs, p)
             ELSE [ok |-> FALSE, fs |-> up.fs]

\* `git worktree add <dest> --detach`: git refuses a destination that exists
\* (the directories present before the call hold files) and creates the
\* directory otherwise
GitAddRefuses(fs, before, dest) ==
    LET loc == Location(fs, dest)
    IN  loc \in before \/ loc \in DOMAIN fs.links

GitAddDirs(fs, dest) == fs.dirs \cup {Location(fs, dest)}

\* (mutant) the validation result is dropped and the call goes on
CwapAfterValidateIgnored(res) == "mkdir"

\* the `?` after validate_path_within_bases: an error returns at once
CwapAfterValidate(res) == IF res.ok THEN "mkdir" ELSE "done"

-----------------------------------------------------------------------------
(* SpecPath: one call of validate_path_within_bases, or one call of        *)
(* create_worktree_at_path, on a candidate path and a filesystem layout    *)

Comp == {"h", "w", "o", "n", "l", ParentDir}

Candidates == UNION {[1..n -> Comp] : n \in 1..MaxDepth}

RepoDir == Join(Home, <<"r">>)

LinkAt == Join(Home, <<"l">>)

\* no link, a link to a directory outside the home, a dangling link
LinkLayouts == {<<>>, LinkAt :> <<"o">>, LinkAt :> <<"o", "n">>}

DirLayouts == {{Root, Home, <<"o">>} \cup s : s \in SUBSET {AristarBase, RepoDir}}

BaseChoices == {get_allowed_worktree_bases, <<AristarBase>>}

PFs == [dirs |-> p_dirs, links |-> p_links]

\* the variables of the path calls while another specification runs
PathIdle ==
    /\ p_dirs = {Root}
    /\ p_links = <<>>
    /\ p_dirs0 = {Root}
    /\ p_path = <<>>
    /\ p_bases = <<>>
    /\ p_pc = "idle"
    /\ p_res = Err("none")
    /\ p_git = FALSE
    /\ p_ret = Err("none")

CmdIdle ==
    /\ c_cmd = <<>>
    /\ c_exists = FALSE
    /\ c_pc = "idle"
    /\ c_ret = "none"

GitIdle ==
    /\ g_dirs = {Root}
    /\ g_main = [bare |-> FALSE, branch |-> <<>>]
    /\ g_wts = <<>>
    /\ g_branches = {}

ListIdle ==
    /\ g_arg = <<>>
    /\ g_pc = "idle"
    /\ g_out = [ok |-> FALSE, list |-> <<>>]

NoOp ==
    [op |-> "none", ok |-> FALSE, err |-> "none", name |-> <<>>, path |-> <<>>,
     force |-> FALSE, wasLocked |-> FALSE]

WtIdle == w_last = NoOp

\* no cleanup_unaccepted_agents call in progress
NoCleanup ==
    [pc |-> "idle", task |-> "", todo |-> <<>>, start |-> <<>>, n |-> 0,
     log |-> <<>>, interfered |-> FALSE]

\* no remove_agent_from_task call in progress
NoRemove == [pc |-> "idle", task |-> "", path |-> <<>>, delete_worktree |-> FALSE]

NoCall ==
    [op |-> "none", ok |-> FALSE, task |-> "", agent |-> <<>>, before |-> {},
     start |-> <<>>, n |-> 0, log |-> <<>>, interfered |-> FALSE,
     dropped |-> {}]

TaskIdle ==
    /\ t_tasks = <<>>
    /\ t_file = <<>>
    /\ t_cleanup = NoCleanup
    /\ t_remove = NoRemove
    /\ t_last = NoCall
    /\ t_faults = 0
    /\ o_instances = {}

\* the threads of the command handlers, and the two store locks:
\* TaskManagerState.store (agent_manager/store.rs) and AppState.store
\* (worktrees/store.rs)
Threads == 1..MaxThreads

StoreLocks == {"tasks", "repos"}

NoThreadOp == [op |-> "idle", at |-> 0]

LockIdle ==
    /\ l_pc = [t \in Threads |-> NoThreadOp]
    /\ l_locks = [l \in StoreLocks |-> {}]
    /\ l_sub = {}

\* no create_worktree call on any thread
NoCreate ==
    [pc |-> "idle", name |-> <<>>, ref |-> <<>>, script |-> "none",
     execute |-> FALSE, ret |-> "none"]

RaceIdle == k_calls = [t \in Threads |-> NoCreate]

\* no repository in the store, no store file
NoStore == [added |-> FALSE, worktrees |-> <<>>, file |-> <<>>]

StoreIdle == s_store = NoStore

InitPath ==
    /\ CmdIdle
    /\ GitIdle
    /\ ListIdle
    /\ WtIdle
    /\ TaskIdle
    /\ LockIdle
    /\ RaceIdle
    /\ StoreIdle
    /\ p_dirs \in DirLayouts
    /\ p_links \in LinkLayouts
    /\ p_dirs0 = p_dirs
    /\ p_path \in Candidates
    /\ p_bases \in BaseChoices
    /\ p_pc = "start"
    /\ p_res = Err("none")
    /\ p_git = FALSE
    /\ p_ret = Err("none")

\* a direct call of validate_path_within_bases(p_path, p_bases)
ValidatePath ==
    /\ p_pc = "start"
    /\ p_res' = validate_path_within_bases(PFs, p_path, p_bases)
    /\ p_pc' = "validated"
    /\ UNCHANGED <<p_dirs, p_links, p_dirs0, p_path, p_bases, p_git, p_ret>>
    /\ UNCHANGED notPath

\* create_worktree_at_path, operations.rs 614-622: canonicalize the
\* repository path, then validate the destination
CwapValidate ==
    /\ p_pc = "start"
    /\ p_bases = get_allowed_worktree_bases
    /\ IF ~Exists(PFs, RepoDir)
       THEN /\ p_ret' = Err("repo path")
            /\ p_pc' = "done"
            /\ p_res' = p_res
       ELSE LET res == validate_path_within_bases(PFs, p_path, get_allowed_worktree_bases)
            IN  /\ p_res' = res
                /\ p_pc' = CwapAfterValidate(res)
                /\ p_ret' = IF res.ok THEN p_ret ELSE res
    /\ UNCHANGED <<p_dirs, p_links, p_dirs0, p_path, p_bases, p_git>>
    /\ UNCHANGED notPath

\* operations.rs 625-628: create_dir_all(dest_path.parent())
CwapMkdir ==
    /\ p_pc = "mkdir"
    /\ LET made == IF Len(p_path) = 0 THEN [ok |-> TRUE, fs |-> PFs]
                   ELSE create_dir_all(PFs, Parent(p_path))
       IN  /\ p_dirs' = made.fs.dirs
           /\ p_pc' = IF made.ok THEN "git" ELSE "done"
           /\ p_ret' = IF made.ok THEN p_ret ELSE Err("create parent")
    /\ UNCHANGED <<p_links, p_dirs0, p_path, p_bases, p_res, p_git>>
    /\ UNCHANGED notPath

\* operations.rs 631-651: git worktree add, then canonicalize the result
CwapGit ==
    /\ p_pc = "git"
    /\ p_git' = TRUE
    /\ p_pc' = "done"
    /\ IF GitAddRefuses(PFs, p_dirs0, p_path)
       THEN /\ p_ret' = Err("git")
            /\ p_dirs' = p_dirs
       ELSE /\ p_dirs' = GitAddDirs(PFs, p_path)
            /\ p_ret' = Ok(Location(PFs, p_path))
    /\ UNCHANGED <<p_links, p_dirs0, p_path, p_bases, p_res>>
    /\ UNCHANGED notPath

NextPath == ValidatePath \/ CwapValidate \/ CwapMkdir \/ CwapGit

SpecPath == InitPath /\ [][NextPath]_vars

-----------------------------------------------------------------------------
(* C1, C2 *)

\* inside one of the allowed bases: below the location a base names
InsideBases(fs, loc, bases) ==
    \E i \in 1..Len(bases) : StartsWith(loc, Location(fs, bases[i]))

\* C1: whenever validate_path_within_bases returns Ok(p), the location p
\* names once its `..` segments and symbolic links are resolved lies inside
\* an allowed base, and a candidate that resolves outside all bases is
\* rejected.
C1_ValidateConfines ==
    p_pc = "validated" =>
        /\ p_res.ok => InsideBases(PFs, Location(PFs, p_res.path), p_bases)
        /\ ~InsideBases(PFs, Location(PFs, p_path), p_bases) => ~p_res.ok

\* C2: when validation of destination_path fails, create_worktree_at_path
\* has created no directory and has not run git, and it returns the error;
\* a directory is created or git is run only after validation succeeded.
C2_ValidateBeforeEffects ==
    /\ (p_pc = "done" /\ ~p_res.ok) =>
            p_dirs = p_dirs0 /\ ~p_git /\ ~p_ret.ok
    /\ (p_git \/ p_dirs # p_dirs0 \/ p_pc \in {"mkdir", "git"}) => p_res.ok

\* C2 witness: a call whose validation failed has returned
C2_Witness ==
    /\ p_pc = "done"
    /\ Exists(PFs, RepoDir)
    /\ ~p_res.ok
    /\ p_res.err = "traversal"
    /\ p_ret = p_res


-----------------------------------------------------------------------------
(* validate_custom_command (external_apps.rs): a command is the sequence   *)
(* of its characters; "backtick" stands for the character U+0060           *)

\* str::starts_with
StrStartsWith(str, prefix) ==
    Len(prefix) <= Len(str) /\ SubSeq(str, 1, Len(prefix)) = prefix

allowed_prefixes == <<
    <<"/", "u", "s", "r", "/", "b", "i", "n", "/">>,
    <<"/", "u", "s", "r", "/", "l", "o", "c", "a", "l", "/", "b", "i", "n", "/">>,
    <<"/", "o", "p", "t", "/", "h", "o", "m", "e", "b", "r", "e", "w", "/", "b", "i", "n", "/">>,
    <<"/", "A", "p", "p", "l", "i", "c", "a", "t", "i", "o", "n", "s", "/">>,
    <<"/", "S", "y", "s", "t", "e", "m", "/", "A", "p", "p", "l", "i", "c", "a", "t", "i", "o", "n", "s", "/">> >>

\* (mutant) the ampersand is missing from the list
forbidden_chars_short == {"|", ";", "$", "backtick", "(", ")", "{", "}", "\n", "\r", "<", ">"}

forbidden_chars == {"|", ";", "&", "$", "backtick", "(", ")", "{", "}", "\n", "\r", "<", ">"}

validate_custom_command(cmd, exists) ==
    IF ~StrStartsWith(cmd, <<"/">>) THEN "not absolute"
    ELSE IF ~\E i \in 1..Len(allowed_prefixes) : StrStartsWith(cmd, allowed_prefixes[i])
    THEN "not allowed"
    ELSE IF \E i \in 1..Len(cmd) : cmd[i] \in forbidden_chars
    THEN "forbidden characters"
    ELSE IF ~exists THEN "not found"
    ELSE "ok"

-----------------------------------------------------------------------------
(* SpecCmd: one call of validate_custom_command *)

\* directory parts: the five allowed, and unlisted, relative and near-miss ones
CmdHeads == {allowed_prefixes[i] : i \in 1..Len(allowed_prefixes)} \cup
    {<<"/", "t", "m", "p", "/">>, <<"u", "s", "r", "/", "b", "i", "n", "/">>, <<"/", "u", "s", "r", "/", "b", "i", "n">>, <<>>}

\* characters of the rest: the shell metacharacters and three harmless ones
TailChars == {"|", ";", "&", "$", "backtick", "(", ")", "{", "}", "\n", "\r", "<", ">",
              "e", "/", "."}

CmdTails == UNION {[1..n -> TailChars] : n \in 0..MaxTail}

\* rests that climb out of the directory part: ../e and ../../e
TraversalTails ==
    {<<".", ".", "/", "e">>, <<".", ".", "/", ".", ".", "/", "e">>}

InitCmd ==
    /\ PathIdle
    /\ GitIdle
    /\ ListIdle
    /\ WtIdle
    /\ TaskIdle
    /\ LockIdle
    /\ RaceIdle
    /\ StoreIdle
    /\ c_cmd \in {h \o t : h \in CmdHeads, t \in CmdTails \cup TraversalTails}
    /\ c_exists \in BOOLEAN
    /\ c_pc = "start"
    /\ c_ret = "none"

ValidateCustomCommand ==
    /\ c_pc = "start"
    /\ c_ret' = validate_custom_command(c_cmd, c_exists)
    /\ c_pc' = "done"
    /\ UNCHANGED <<c_cmd, c_exists>>
    /\ UNCHANGED notCmd

NextCmd == ValidateCustomCommand

SpecCmd == InitCmd /\ [][NextCmd]_vars

-----------------------------------------------------------------------------
(* C10 *)

CmdAbsolute == Len(c_cmd) > 0 /\ c_cmd[1] = "/"

CmdAllowListed ==
    \E pre \in {<<"/", "u", "s", "r", "/", "b", "i", "n", "/">>,
                <<"/", "u", "s", "r", "/", "l", "o", "c", "a", "l", "/", "b", "i", "n", "/">>,
                <<"/", "o", "p", "t", "/", "h", "o", "m", "e", "b", "r", "e", "w", "/", "b", "i", "n", "/">>,
                <<"/", "A", "p", "p", "l", "i", "c", "a", "t", "i", "o", "n", "s", "/">>,
                <<"/", "S", "y", "s", "t", "e", "m", "/", "A", "p", "p", "l", "i", "c", "a", "t", "i", "o", "n", "s", "/">>} :
        /\ Len(c_cmd) >= Len(pre)
        /\ \A i \in 1..Len(pre) : c_cmd[i] = pre[i]

CmdClean ==
    \A i \in 1..Len(c_cmd) :
        c_cmd[i] \notin {"|", ";", "&", "$", "backtick", "(", ")", "{", "}", "\n", "\r", "<", ">"}

\* C10: validate_custom_command returns Ok exactly when the command is an
\* absolute path, starts with an allow-listed prefix, holds no denylisted
\* character and exists on disk; otherwise the error is that of the first
\* failing check in the order absolute-path, allow-list, forbidden
\* characters, existence.
C10_CustomCommand ==
    c_pc = "done" =>
        /\ c_ret = "ok" <=> (CmdAbsolute /\ CmdAllowListed /\ CmdClean /\ c_exists)
        /\ c_ret = "not absolute" <=> ~CmdAbsolute
        /\ c_ret = "not allowed" <=> (CmdAbsolute /\ ~CmdAllowListed)
        /\ c_ret = "forbidden characters" <=>
                (CmdAbsolute /\ CmdAllowListed /\ ~CmdClean)
        /\ c_ret = "not found" <=>
                (CmdAbsolute /\ CmdAllowListed /\ CmdClean /\ ~c_exists)

\* C10 witness: an allow-listed command with a forbidden character that
\* does not exist either is rejected for the character
C10_Witness ==
    /\ c_pc = "done"
    /\ CmdAllowListed
    /\ ~CmdClean
    /\ ~c_exists
    /\ c_ret = "forbidden characters"


-----------------------------------------------------------------------------
(* git's state and `git worktree list --porcelain`                         *)
(*                                                                         *)
(* g_main = [bare, branch]; an entry of g_wts = [path, branch, locked,     *)
(* reason]. Option<T> is <<>> (None) or <<x>> (Some(x)).                   *)

None == <<>>

Some(x) == <<x>>

\* the repository the operations run on, and a symbolic link to it
RepoPath == Join(Home, <<"r">>)

RepoAlias == Join(Home, <<"ra">>)

\* a directory inside the repository's working tree
RepoSub == Join(RepoPath, <<"src">>)

GitLinks == RepoAlias :> RepoPath

GFs == [dirs |-> g_dirs, links |-> GitLinks]

Line(k, v) == [k |-> k, v |-> v]

Blank == Line("", <<>>)

HeadLines(branch) ==
    <<Line("HEAD", <<"sha">>)>> \o
    (IF branch = None THEN <<Line("detached", <<>>)>>
     ELSE <<Line("branch", <<"refs", "heads", branch[1]>>)>>)

MainBlock(main) ==
    <<Line("worktree", RepoPath)>> \o
    (IF main.bare THEN <<Line("bare", <<>>)>> ELSE HeadLines(main.branch)) \o
    <<Blank>>

LinkedBlock(fs, w) ==
    <<Line("worktree", w.path)>> \o HeadLines(w.branch) \o
    (IF w.locked THEN <<Line("locked", w.reason)>> ELSE <<>>) \o
    (IF w.path \in fs.dirs THEN <<>> ELSE <<Line("prunable", <<"gone">>)>>) \o
    <<Blank>>

RECURSIVE LinkedBlocks(_, _)
LinkedBlocks(fs, wts) ==
    IF wts = <<>> THEN <<>>
    ELSE LinkedBlock(fs, Head(wts)) \o LinkedBlocks(fs, Tail(wts))

\* stdout of `git worktree list --porcelain`
Porcelain(fs, main, wts) == MainBlock(main) \o LinkedBlocks(fs, wts)

-----------------------------------------------------------------------------
(* list_worktrees: the line parser *)

ParserStart ==
    [current_path |-> None, current_commit |-> None, worktree_branch |-> None,
     is_locked |-> FALSE, lock_reason |-> None, is_bare |-> FALSE,
     worktrees |-> <<>>]

\* b.strip_prefix("refs/heads/").unwrap_or(&b)
StripRefsHeads(b) ==
    IF Len(b) >= 2 /\ SubSeq(b, 1, 2) = <<"refs", "heads">>
    THEN SubSeq(b, 3, Len(b)) ELSE b

\* (mutant) the entry is compared with the repo_path argument as given
MainPathRaw(fs, repo_path) == repo_path

\* main_path: the canonical repo_path (the argument exists when git ran there)
MainPath(fs, repo_path) == Canonicalize(fs, repo_path).path

\* the entry built when a block ends (operations.rs 287-323 and 353-389)
WorktreeEntry(fs, st, main_path) ==
    LET worktree_path == st.current_path[1]
        path    == Canonicalize(fs, worktree_path).path
        is_main == path = main_path
    IN  [name |-> IF is_main THEN "main"
                  ELSE IF HasFileName(worktree_path) THEN FileName(worktree_path)
                  ELSE "worktree",
         path |-> path,
         branch |-> IF st.worktree_branch = None THEN None
                    ELSE StripRefsHeads(st.worktree_branch[1]),
         commit |-> st.current_commit,
         is_main |-> is_main,
         is_locked |-> st.is_locked,
         lock_reason |-> st.lock_reason]

\* a blank line (operations.rs 272-329)
EndBlock(fs, st, main_path) ==
    IF st.current_path = None
    THEN [st EXCEPT !.is_locked = FALSE, !.is_bare = FALSE]
    ELSE IF ~Exists(fs, st.current_path[1])
    THEN [st EXCEPT !.current_path = None, !.current_commit = None,
                    !.worktree_branch = None, !.lock_reason = None,
                    !.is_locked = FALSE, !.is_bare = FALSE]
    ELSE IF st.is_bare
    THEN [st EXCEPT !.current_path = None, !.worktree_branch = None,
                    !.is_locked = FALSE, !.is_bare = FALSE]
    ELSE [st EXCEPT !.current_path = None, !.current_commit = None,
                    !.worktree_branch = None, !.lock_reason = None,
                    !.is_locked = FALSE, !.is_bare = FALSE,
                    !.worktrees = Append(@, WorktreeEntry(fs, st, main_path))]

\* a non-blank line (operations.rs 331-344)
FieldLine(st, line) ==
    IF line.k = "worktree" THEN [st EXCEPT !.current_path = Some(line.v)]
    ELSE IF line.k = "HEAD" THEN [st EXCEPT !.current_commit = Some(line.v[1])]
    ELSE IF line.k = "branch" THEN [st EXCEPT !.worktree_branch = Some(line.v)]
    ELSE IF line.k = "locked" /\ line.v = <<>> THEN [st EXCEPT !.is_locked = TRUE]
    ELSE IF line.k = "locked"
    THEN [st EXCEPT !.is_locked = TRUE, !.lock_reason = Some(line.v[1])]
    ELSE IF line.k = "bare" THEN [st EXCEPT !.is_bare = TRUE]
    ELSE st

RECURSIVE ParseLines(_, _, _, _)
ParseLines(fs, st, lines, main_path) ==
    IF lines = <<>> THEN st
    ELSE The({ParseLines(fs, nxt, Tail(lines), main_path) :
                nxt \in {IF Head(lines).k = "" THEN EndBlock(fs, st, main_path)
                         ELSE FieldLine(st, Head(lines))}})

\* the last block when the output does not end in a blank line (347-391)
LastBlock(fs, st, main_path) ==
    IF st.current_path # None /\ Exists(fs, st.current_path[1]) /\ ~st.is_bare
    THEN Append(st.worktrees, WorktreeEntry(fs, st, main_path))
    ELSE st.worktrees

\* `git ...` run with current_dir(cwd): the directory must exist and lie in
\* the repository or in one of its registered worktrees
InRepository(fs, wts, cwd) ==
    /\ Exists(fs, cwd)
    /\ LET c == Canonicalize(fs, cwd).path
       IN  \/ StartsWith(c, RepoPath)
           \/ \E i \in 1..Len(wts) : c = wts[i].path

list_worktrees(fs, main, wts, repo_path) ==
    IF ~InRepository(fs, wts, repo_path) THEN [ok |-> FALSE, list |-> <<>>]
    ELSE The({
        [ok |-> TRUE,
         list |-> LastBlock(fs, ParseLines(fs, ParserStart, lines, main_path),
                            main_path)]
        : main_path \in {MainPath(fs, repo_path)},
          lines \in {Porcelain(fs, main, wts)}})


-----------------------------------------------------------------------------
(* SpecList: one call of list_worktrees on a repository in any state git   *)
(* can list: bare or not, linked worktrees locked, detached, stale         *)

\* get_repo_hash(repo_path): the directory name derived from the path
RepoHash == "k"

\* get_worktree_base_for_repo
WorktreeBase == Join(AristarBase, <<RepoHash>>)

BaseDirs == {Root, Home, AristarBase, WorktreeBase, RepoPath, RepoSub}

ListPaths == {Join(WorktreeBase, <<n>>) : n \in {"a", "b", "main"}}

LinkedEntries ==
    {w \in [path : ListPaths, branch : {None, Some("f")},
            locked : BOOLEAN, reason : {None, Some("why")}] :
        w.reason # None => w.locked}

LinkedLists ==
    {q \in UNION {[1..n -> LinkedEntries] : n \in 0..MaxLinked} :
        \A i, j \in 1..Len(q) : i # j => q[i].path # q[j].path}

PathsOf(wts) == {wts[i].path : i \in 1..Len(wts)}

InitList ==
    /\ PathIdle
    /\ CmdIdle
    /\ WtIdle
    /\ TaskIdle
    /\ LockIdle
    /\ RaceIdle
    /\ StoreIdle
    /\ g_main \in {[bare |-> TRUE, branch |-> None],
                   [bare |-> FALSE, branch |-> None],
                   [bare |-> FALSE, branch |-> Some("main")]}
    /\ g_wts \in LinkedLists
    /\ g_dirs \in {BaseDirs \cup s : s \in SUBSET PathsOf(g_wts)}
    /\ g_branches = {"main", "f"}
    /\ g_arg \in {RepoPath, RepoAlias, RepoSub} \cup ListPaths
    /\ g_pc = "start"
    /\ g_out = [ok |-> FALSE, list |-> <<>>]

ListWorktrees ==
    /\ g_pc = "start"
    /\ g_out' = list_worktrees(GFs, g_main, g_wts, g_arg)
    /\ g_pc' = "done"
    /\ UNCHANGED <<gitVars, g_arg>>
    /\ UNCHANGED notList

NextList == ListWorktrees

SpecList == InitList /\ [][NextList]_vars

-----------------------------------------------------------------------------
(* C8 *)

MainEntries == {i \in 1..Len(g_out.list) : g_out.list[i].is_main}

ArgCanonical == Canonicalize(GFs, g_arg).path

\* git lists a non-bare entry at the canonical repo_path
ArgIsListedWorktree ==
    \/ ArgCanonical = RepoPath /\ ~g_main.bare
    \/ ArgCanonical \in PathsOf(g_wts)

\* repo_path names the repository or one of its worktrees, not a directory
\* inside a working tree
ArgIsTopLevel == ArgCanonical \in {RepoPath} \cup PathsOf(g_wts)

\* C8 (as claimed): list_worktrees returns exactly one entry with
\* is_main = true, whose path is the canonical repo_path and whose name is
\* "main", for every listing git can produce.
C8_ExactlyOneMain ==
    (g_pc = "done" /\ g_out.ok /\ ArgIsTopLevel) =>
        \E i \in 1..Len(g_out.list) :
            /\ MainEntries = {i}
            /\ g_out.list[i].path = ArgCanonical
            /\ g_out.list[i].name = "main"

\* C8 (amended): at most one entry has is_main = true; such an entry has the
\* canonical repo_path as its path and is named "main"; there is one exactly
\* when git lists a non-bare entry at the canonical repo_path (none for a
\* bare repository, whose entry is dropped).
C8_AtMostOneMain ==
    (g_pc = "done" /\ g_out.ok) =>
        /\ Cardinality(MainEntries) <= 1
        /\ \A i \in MainEntries :
                /\ g_out.list[i].path = ArgCanonical
                /\ g_out.list[i].name = "main"
        /\ MainEntries # {} <=> ArgIsListedWorktree

\* C8 witness: a repository with a stale and a locked linked worktree,
\* listed through a symbolic link to it, yields its one main entry
C8_Witness ==
    /\ g_pc = "done"
    /\ g_out.ok
    /\ g_arg = RepoAlias
    /\ Cardinality(MainEntries) = 1
    /\ Len(g_wts) = 2
    /\ Len(g_out.list) = 2
    /\ \E i \in 1..Len(g_out.list) : g_out.list[i].is_locked


-----------------------------------------------------------------------------
(* The git commands the operations run.  G = [dirs, main, wts, branches].  *)

GState == [dirs |-> g_dirs, main |-> g_main, wts |-> g_wts, branches |-> g_branches]

FsOf(G) == [dirs |-> G.dirs, links |-> GitLinks]

GitOk(G) == [ok |-> TRUE, G |-> G]

GitErr(G) == [ok |-> FALSE, G |-> G]

CheckedOut(G, b) ==
    \/ G.main.branch = Some(b)
    \/ \E i \in 1..Len(G.wts) : G.wts[i].branch = Some(b)

IndexOf(wts, path) ==
    IF path \in PathsOf(wts)
    THEN CHOOSE i \in 1..Len(wts) : wts[i].path = path
    ELSE 0

RemoveAt(q, i) == SubSeq(q, 1, i - 1) \o SubSeq(q, i + 1, Len(q))

Prefixes(p) == {SubSeq(p, 1, n) : n \in 0..Len(p)}

Commits == {"sha"}

\* `git worktree add <dest> [--detach] [<ref>]`: refused when the destination
\* exists or is still registered, when the ref is unknown, or when the branch
\* to check out is checked out in another worktree; without a ref and without
\* --detach the branch is named after the destination's last component
GitWorktreeAdd(G, dest, ref, detach) ==
    LET loc == Location(FsOf(G), dest)
        b   == IF ref # None THEN ref[1]
               ELSE IF Len(loc) > 0 THEN loc[Len(loc)] ELSE "HEAD"
        det == detach \/ (ref # None /\ ref[1] \in Commits)
    IN  IF loc \in G.dirs \/ loc \in PathsOf(G.wts) THEN GitErr(G)
        ELSE IF ref # None /\ ref[1] \notin G.branches \cup Commits THEN GitErr(G)
        ELSE IF ~det /\ CheckedOut(G, b) THEN GitErr(G)
        ELSE GitOk([G EXCEPT
                !.dirs = @ \cup Prefixes(loc),
                !.branches = IF det THEN @ ELSE @ \cup {b},
                !.wts = Append(@, [path |-> loc,
                                   branch |-> IF det THEN None ELSE Some(b),
                                   locked |-> FALSE, reason |-> None])])

\* `git worktree remove [--force [--force]] <path>`: a locked worktree needs
\* the force flag twice, one that holds untracked files needs it once; the
\* directory goes with what is in it
GitWorktreeRemove(G, path, nforce) ==
    LET i == IndexOf(G.wts, path)
    IN  IF i = 0 THEN GitErr(G)
        ELSE IF G.wts[i].locked /\ nforce < 2 THEN GitErr(G)
        ELSE IF nforce = 0 /\ \E d \in G.dirs : d # path /\ StartsWith(d, path)
        THEN GitErr(G)
        ELSE GitOk([G EXCEPT !.wts = RemoveAt(@, i),
                             !.dirs = {d \in @ : ~StartsWith(d, path)}])

\* `git worktree lock [--reason <r>] <path>`
GitWorktreeLock(G, path, reason) ==
    LET i == IndexOf(G.wts, path)
    IN  IF i = 0 \/ G.wts[i].locked THEN GitErr(G)
        ELSE GitOk([G EXCEPT !.wts[i].locked = TRUE, !.wts[i].reason = reason])

\* `git worktree unlock <path>`
GitWorktreeUnlock(G, path) ==
    LET i == IndexOf(G.wts, path)
    IN  IF i = 0 \/ ~G.wts[i].locked THEN GitErr(G)
        ELSE GitOk([G EXCEPT !.wts[i].locked = FALSE, !.wts[i].reason = None])

\* `git branch -d|-D <branch>`: -d refuses a branch that is not merged
GitBranchDelete(G, b, capitalD, merged) ==
    IF b \notin G.branches \/ CheckedOut(G, b) THEN GitErr(G)
    ELSE IF ~capitalD /\ ~merged THEN GitErr(G)
    ELSE GitOk([G EXCEPT !.branches = @ \ {b}])

-----------------------------------------------------------------------------
(* Worktree lifecycle operations (operations.rs) *)

\* git: the git commands the operation ran, in order, where it keeps them
OpOk(G) == [ok |-> TRUE, err |-> "none", G |-> G, branchDelete |-> None, git |-> <<>>]

OpErr(e, G) == [ok |-> FALSE, err |-> e, G |-> G, branchDelete |-> None, git |-> <<>>]

\* one git command: its subcommand, its flag and its argument
GitCmd(cmd, flag, arg) == [cmd |-> cmd, flag |-> flag, arg |-> arg]

\* find_git_repo_root: `git rev-parse --git-dir` run in the path; every
\* directory of the repository and of its worktrees unwinds to the repository
find_git_repo_root(G, path) ==
    IF InRepository(FsOf(G), G.wts, path) THEN SomePath(RepoPath) ELSE NoPath

\* ensure_repo_info: create_dir_all of the repository's container
ensure_repo_info(G) == [G EXCEPT !.dirs = @ \cup Prefixes(WorktreeBase)]

\* worktree_base.join(name)
CreatePath(name) == PathJoin(WorktreeBase, name)

\* the file the startup script is written to
ScriptFile == ".worktree-setup.sh"

\* std::fs::write(worktree_path.join(".worktree-setup.sh"), script); the
\* file is an entry of the worktree directory
WriteScript(G, dest) == [G EXCEPT !.dirs = @ \cup {Join(dest, <<ScriptFile>>)}]

\* (mutant) a failing script takes the worktree and the file with it
UndoneAfterScript(before, after) == before

\* operations.rs 444-446: the error is returned, nothing is undone
KeptAfterScript(before, after) == after

\* create_worktree(repo_path, name, branch, commit, startup_script, execute)
\* script: "none", or how the script ends when run: "ok", "fail"
create_worktree(G, repo_path, name, branch, commit, script, execute) ==
    IF ~Exists(FsOf(G), repo_path) THEN OpErr("repo path", G)
    ELSE LET G1   == ensure_repo_info(G)
             dest == CreatePath(name)
             add  == GitWorktreeAdd(G1, dest,
                                    IF branch # None THEN branch ELSE commit,
                                    FALSE)
             ls   == list_worktrees(FsOf(add.G), add.G.main, add.G.wts, RepoPath)
         IN  IF ~add.ok THEN OpErr("git", G1)
             ELSE IF ~ls.ok THEN OpErr("list", add.G)
             ELSE IF ~\E i \in 1..Len(ls.list) : ls.list[i].path = dest
             THEN OpErr("Failed to find created worktree", add.G)
             ELSE IF script = "none" THEN OpOk(add.G)
             ELSE IF execute /\ script = "fail"
             THEN OpErr("script", KeptAfterScript(G1, WriteScript(add.G, dest)))
             ELSE OpOk(WriteScript(add.G, dest))

\* (mutant) --force is passed once
ForceFlagsOnce(force) == IF force THEN 1 ELSE 0

\* operations.rs 474-479: --force is pushed twice
ForceFlags(force) == IF force THEN 2 ELSE 0

\* (mutant) the result of `git worktree remove` is dropped
RemoveFailedNever(res) == FALSE

\* operations.rs 481: run_git_command(&args, &repo_path)?
RemoveFailed(res) == ~res.ok

\* (mutant) develop is missing from the list
protected_short == {"main", "master", "development"}

protected == {"main", "master", "develop", "development"}

\* (mutant) the branch is always deleted with -d
BranchDeleteFlagSmall(force) == "-d"

\* operations.rs 487-491: -D when force, -d otherwise
BranchDeleteFlag(force) == IF force THEN "-D" ELSE "-d"

\* remove_worktree(path, force, delete_branch); merged: whether git finds the
\* branch merged when asked to delete it with -d
remove_worktree(G, path, force, delete_branch, merged) ==
    LET fs   == FsOf(G)
        root == find_git_repo_root(G, path)
        path_canonical == Canonicalize(fs, path).path
        ls   == list_worktrees(fs, G.main, G.wts, root.path)
        hits == IF ls.ok THEN {i \in 1..Len(ls.list) : ls.list[i].path = path_canonical}
                ELSE {}
        branch_to_delete ==
            IF delete_branch /\ hits # {}
            THEN ls.list[CHOOSE i \in hits : \A j \in hits : i <= j].branch
            ELSE None
        rm   == GitWorktreeRemove(G, path_canonical, ForceFlags(force))
        ranRoot == <<GitCmd("rev-parse", "--git-dir", path)>>
        ranList == IF delete_branch
                   THEN <<GitCmd("worktree list", "--porcelain", root.path)>>
                   ELSE <<>>
        ranRemove == <<GitCmd("worktree remove",
                              IF force THEN "--force --force" ELSE "",
                              path_canonical)>>
    IN  IF ~root.ok THEN [OpErr("No git repository found", G) EXCEPT !.git = ranRoot]
        ELSE IF ~Canonicalize(fs, path).ok
        THEN [OpErr("canonicalize", G) EXCEPT !.git = ranRoot]
        ELSE IF delete_branch /\ ~ls.ok
        THEN [OpErr("list", G) EXCEPT !.git = ranRoot \o ranList]
        ELSE IF RemoveFailed(rm)
        THEN [OpErr("git", G) EXCEPT !.git = ranRoot \o ranList \o ranRemove]
        ELSE IF branch_to_delete # None /\ branch_to_delete[1] \notin protected
        THEN [ok |-> TRUE, err |-> "none",
              G |-> GitBranchDelete(rm.G, branch_to_delete[1],
                                    BranchDeleteFlag(force) = "-D", merged).G,
              branchDelete |-> branch_to_delete,
              git |-> ranRoot \o ranList \o ranRemove
                      \o <<GitCmd("branch", BranchDeleteFlag(force),
                                   branch_to_delete)>>]
        ELSE [OpOk(rm.G) EXCEPT !.git = ranRoot \o ranList \o ranRemove]

\* lock_worktree(path, reason)
lock_worktree(G, path, reason) ==
    LET root == find_git_repo_root(G, path)
        res  == GitWorktreeLock(G, Canonicalize(FsOf(G), path).path, reason)
    IN  IF ~root.ok THEN OpErr("No git repository found", G)
        ELSE IF ~res.ok THEN OpErr("git", G)
        ELSE OpOk(res.G)

\* unlock_worktree(path)
unlock_worktree(G, path) ==
    LET root == find_git_repo_root(G, path)
        res  == GitWorktreeUnlock(G, Canonicalize(FsOf(G), path).path)
    IN  IF ~root.ok THEN OpErr("No git repository found", G)
        ELSE IF ~res.ok THEN OpErr("git", G)
        ELSE OpOk(res.G)


-----------------------------------------------------------------------------
(* SpecWt: the lifecycle operations on one repository, in any order, with  *)
(* the user deleting worktree directories behind git's back                *)

\* worktree names a caller passes: plain, the name the inventory gives the
\* main worktree, one with a separator
Names == {<<"a">>, <<"main">>, <<"x", "a">>}

\* <<branch, commit>> arguments: a new branch named after the worktree, or a
\* detached checkout of a commit
RefArgs == {<<None, None>>, <<None, Some("sha")>>}

\* <<startup_script, execute_script>> arguments; a script is named by how it
\* ends when run
ScriptArgs == {<<"none", FALSE>>, <<"fail", TRUE>>}

RepoArgs == {RepoPath, RepoAlias}

\* paths a caller passes to remove, lock and unlock
OpPaths == {RepoPath, WorktreeBase} \cup {CreatePath(n) : n \in Names}

InitGit ==
    /\ g_dirs = {Root, Home, AristarBase, RepoPath, RepoSub}
    /\ g_main = [bare |-> FALSE, branch |-> Some("main")]
    /\ g_wts = <<>>
    /\ g_branches = {"main", "f"}

InitWt ==
    /\ PathIdle
    /\ CmdIdle
    /\ ListIdle
    /\ TaskIdle
    /\ LockIdle
    /\ RaceIdle
    /\ StoreIdle
    /\ InitGit
    /\ w_last = NoOp

SetGit(G) ==
    /\ g_dirs' = G.dirs
    /\ g_main' = G.main
    /\ g_wts' = G.wts
    /\ g_branches' = G.branches

\* the inventory as list_worktrees(repo) returns it in state G
Inventory(G) == list_worktrees(FsOf(G), G.main, G.wts, RepoPath).list

ListedLocked(G, path) ==
    LET inv == Inventory(G)
    IN  \E i \in 1..Len(inv) : inv[i].path = path /\ inv[i].is_locked

CreateWorktreeCall(names, scripts) ==
    \E name \in names, ref \in RefArgs, sc \in scripts, repo \in RepoArgs :
        /\ Len(g_wts) < MaxLinked
        /\ \E r \in {create_worktree(GState, repo, name, ref[1], ref[2], sc[1], sc[2])} :
               /\ SetGit(r.G)
               /\ w_last' = [NoOp EXCEPT !.op = "create", !.ok = r.ok,
                                         !.err = r.err,
                                         !.name = name, !.path = CreatePath(name)]
        /\ UNCHANGED notWt

\* the operations of the inventory are followed without startup scripts;
\* SpecScript runs them
CreateWorktree == CreateWorktreeCall(Names, {<<"none", FALSE>>})

RemoveWorktree ==
    \E path \in OpPaths, force \in BOOLEAN, delete_branch \in BOOLEAN,
       merged \in BOOLEAN :
        /\ merged => (delete_branch /\ ~force)
        /\ \E r \in {remove_worktree(GState, path, force, delete_branch, merged)},
              c \in {Canonicalize(GFs, path)} :
               /\ SetGit(r.G)
               /\ w_last' = [NoOp EXCEPT !.op = "remove", !.ok = r.ok,
                                         !.path = IF c.ok THEN c.path ELSE path,
                                         !.force = force,
                                         !.wasLocked = c.ok /\ ListedLocked(GState, c.path)]
        /\ UNCHANGED notWt

LockWorktree ==
    \E path \in OpPaths, reason \in {None, Some("why")} :
        /\ \E r \in {lock_worktree(GState, path, reason)} :
               /\ SetGit(r.G)
               /\ w_last' = [NoOp EXCEPT !.op = "lock", !.ok = r.ok]
        /\ UNCHANGED notWt

UnlockWorktree ==
    \E path \in OpPaths :
        /\ \E r \in {unlock_worktree(GState, path)} :
               /\ SetGit(r.G)
               /\ w_last' = [NoOp EXCEPT !.op = "unlock", !.ok = r.ok]
        /\ UNCHANGED notWt

\* the user deletes the directory of a linked worktree; git keeps its entry
ExternalDelete ==
    \E i \in 1..Len(g_wts) :
        /\ g_wts[i].path \in g_dirs
        /\ g_dirs' = g_dirs \ {g_wts[i].path}
        /\ w_last' = [NoOp EXCEPT !.op = "external"]
        /\ UNCHANGED <<g_main, g_wts, g_branches>>
        /\ UNCHANGED notWt

NextWt ==
    \/ CreateWorktree
    \/ RemoveWorktree
    \/ LockWorktree
    \/ UnlockWorktree
    \/ ExternalDelete

SpecWt == InitWt /\ [][NextWt]_vars

-----------------------------------------------------------------------------
(* C7, C9 *)

\* the entries of an inventory at a path, and those with a name
EntriesAt(inv, path) == {i \in 1..Len(inv) : inv[i].path = path}

EntriesNamed(inv, n) == {i \in 1..Len(inv) : inv[i].name = n}

\* C7: for a locked worktree of the inventory, remove without force returns
\* an error and the worktree stays listed and locked; remove with force
\* succeeds and the worktree is gone from the inventory, from git's
\* registry and from the disk.
C7_LockedRemoval ==
    (w_last.op = "remove" /\ w_last.wasLocked) =>
        LET inv == Inventory(GState)
        IN  IF w_last.force
            THEN /\ w_last.ok
                 /\ EntriesAt(inv, w_last.path) = {}
                 /\ w_last.path \notin PathsOf(g_wts)
                 /\ w_last.path \notin g_dirs
            ELSE /\ ~w_last.ok
                 /\ \E i \in EntriesAt(inv, w_last.path) : inv[i].is_locked

\* C7 witness: a locked worktree was removed with force while another
\* worktree stays registered
C7_Witness ==
    /\ w_last.op = "remove"
    /\ w_last.wasLocked
    /\ w_last.force
    /\ w_last.ok
    /\ Len(g_wts) = 1

\* the name a worktree of the repository's container was created with
NameOf(path) == StripPrefix(path, WorktreeBase)

CreatedByCreate(path) == StartsWith(path, WorktreeBase) /\ path # WorktreeBase

\* C9 (as claimed): after create(repo, n) succeeds the inventory has an entry
\* named n; after the remove of that worktree succeeds it has none.
C9_NameListedThenAbsent ==
    LET inv == Inventory(GState)
    IN  /\ (w_last.op = "create" /\ w_last.ok) =>
                \E i \in 1..Len(inv) : <<inv[i].name>> = w_last.name
        /\ (w_last.op = "remove" /\ w_last.ok /\ CreatedByCreate(w_last.path)) =>
                ~\E i \in 1..Len(inv) : <<inv[i].name>> = NameOf(w_last.path)

\* every linked worktree lies directly in the repository's container
AllDirect == \A p \in PathsOf(g_wts) : CreatedByCreate(p) /\ Len(NameOf(p)) = 1

\* C9 (amended): after create(repo, n) succeeds the inventory has an entry
\* at <container>/n whose name is the last component of n (n itself for a
\* single-component name); after the remove of that worktree succeeds the
\* inventory has no entry at its path, and none named n when n is a single
\* component other than "main" and every linked worktree lies directly in
\* the container.
C9_LastComponentListed ==
    LET inv == Inventory(GState)
    IN  /\ (w_last.op = "create" /\ w_last.ok) =>
                \E i \in EntriesAt(inv, w_last.path) :
                    inv[i].name = w_last.name[Len(w_last.name)]
        /\ (w_last.op = "remove" /\ w_last.ok /\ CreatedByCreate(w_last.path)) =>
                /\ EntriesAt(inv, w_last.path) = {}
                /\ (Len(NameOf(w_last.path)) = 1 /\ NameOf(w_last.path) # <<"main">>
                        /\ AllDirect)
                      => EntriesNamed(inv, NameOf(w_last.path)[1]) = {}

\* C9 witness: the worktree created as "a" was removed while another
\* worktree created by create is still listed
C9_Witness ==
    /\ w_last.op = "remove"
    /\ w_last.ok
    /\ w_last.path = CreatePath(<<"a">>)
    /\ AllDirect
    /\ Len(Inventory(GState)) = 2


-----------------------------------------------------------------------------
(* The task store: names and paths (task_operations.rs)                    *)

MaxTasks == 1       \* tasks in the store

MaxAgents == 2      \* agents of one task

MaxFaults == 1      \* worktrees damaged from outside

\* char::to_lowercase on the characters that occur
Lower(c) == CASE c = "T" -> "t" [] c = "C" -> "c" [] OTHER -> c

\* char::is_alphanumeric
IsAlphanumeric(c) == c \in {"a", "b", "c", "t", "T", "C"}

\* str::split('-')
RECURSIVE SplitDash(_, _)
SplitDash(s, cur) ==
    IF s = <<>> THEN <<cur>>
    ELSE IF Head(s) = "-" THEN <<cur>> \o SplitDash(Tail(s), <<>>)
    ELSE SplitDash(Tail(s), Append(cur, Head(s)))

NonEmptySegment(seg) == seg # <<>>

\* [..].join("-")
RECURSIVE JoinDash(_)
JoinDash(segs) ==
    IF segs = <<>> THEN <<>>
    ELSE IF Len(segs) = 1 THEN segs[1]
    ELSE segs[1] \o <<"-">> \o JoinDash(Tail(segs))

slugify(s) ==
    LET lo == [i \in 1..Len(s) |-> Lower(s[i])]
        m  == [i \in 1..Len(s) |-> IF IsAlphanumeric(lo[i]) THEN lo[i] ELSE "-"]
    IN  JoinDash(SelectSeq(SplitDash(m, <<>>), NonEmptySegment))

slugify_model_id(model_id) ==
    LET lo == [i \in 1..Len(model_id) |-> Lower(model_id[i])]
        m  == [i \in 1..Len(model_id) |->
                    IF IsAlphanumeric(lo[i]) \/ lo[i] = "-" THEN lo[i] ELSE "-"]
    IN  JoinDash(SelectSeq(SplitDash(m, <<>>), NonEmptySegment))

\* (mutant) only the empty name is refused
NameIsEmpty(name) == name = <<>>

\* name.trim().is_empty()
TrimIsEmpty(name) == \A i \in 1..Len(name) : name[i] = " "

\* (mutant) the worktree is named after the task alone
WorktreeNameOnly(name, model_id) == slugify(name)

\* format!("{}-{}", slugify(&name), slugify_model_id(&model_id)), as characters
WorktreeNameChars(name, model_id) ==
    slugify(name) \o <<"-">> \o slugify_model_id(model_id)

\* the directory name those characters spell
DirName(chars) ==
    CASE chars = <<"t", "-", "a">> -> "t-a"
      [] chars = <<"t", "-", "b">> -> "t-b"
      [] chars = <<"t", "-", "c">> -> "t-c"
      [] chars = <<"t", "-", "a", "-", "b">> -> "t-a-b"
      [] chars = <<"-", "a">> -> "-a"
      [] chars = <<"-", "c">> -> "-c"
      [] chars = <<"-", "a", "-", "b">> -> "-a-b"
      [] chars = <<"t", "-", "b", "-", "a">> -> "t-b-a"
      [] chars = <<"t", "-", "b", "-", "c">> -> "t-b-c"
      [] chars = <<"t", "-", "b", "-", "a", "-", "b">> -> "t-b-a-b"
      [] OTHER -> "other"

get_tasks_base_path == Join(AristarBase, <<"tasks">>)

get_task_folder_path(task_id) == Join(get_tasks_base_path, <<task_id>>)

\* format!("agent-{}", n)
AgentId(n) == <<"agent", n>>

-----------------------------------------------------------------------------
(* create_worktree_at_path as one call on the repository G                 *)

\* (mutant) --detach is passed only when no branch or commit is given
DetachWithoutRef(branch_or_commit) == branch_or_commit = <<>>

\* operations.rs 633-636: args.push("--detach"), whatever the reference
Detach(branch_or_commit) == TRUE

CwOk(G, path) == [ok |-> TRUE, G |-> G, path |-> path]

CwErr(G) == [ok |-> FALSE, G |-> G, path |-> <<>>]

create_worktree_at_path(G, repo_path, destination_path, branch_or_commit) ==
    LET fs   == FsOf(G)
        repo == Canonicalize(fs, repo_path)
        res  == validate_path_within_bases(fs, destination_path,
                                           get_allowed_worktree_bases)
        Made == IF Len(destination_path) = 0 THEN [ok |-> TRUE, fs |-> fs]
                ELSE create_dir_all(fs, Parent(destination_path))
        Add(G1) == IF InRepository(FsOf(G1), G1.wts, repo.path)
                   THEN GitWorktreeAdd(G1, destination_path, branch_or_commit,
                                       Detach(branch_or_commit))
                   ELSE GitErr(G1)
    IN  IF ~repo.ok THEN CwErr(G)
        ELSE IF CwapAfterValidate(res) = "done" THEN CwErr(G)
        ELSE The({
            IF ~made.ok THEN CwErr([G EXCEPT !.dirs = made.fs.dirs])
            ELSE The({
                IF ~add.ok THEN CwErr(add.G)
                ELSE The({
                    IF ~created.ok THEN CwErr(add.G)
                    ELSE CwOk(add.G, created.path)
                    : created \in {Canonicalize(FsOf(add.G), destination_path)}})
                : add \in {Add([G EXCEPT !.dirs = made.fs.dirs])}})
            : made \in {Made}})

-----------------------------------------------------------------------------
(* The task store: operations (task_operations.rs, agent_operations.rs)    *)

\* tasks.iter().find(|t| t.id == task_id): the position, 0 for None
FindTask(tasks, task_id) ==
    IF \E i \in 1..Len(tasks) : tasks[i].id = task_id
    THEN CHOOSE i \in 1..Len(tasks) :
            tasks[i].id = task_id /\ \A j \in 1..(i - 1) : tasks[j].id # task_id
    ELSE 0

\* agents.iter().find(|a| a.id == agent_id): the position, 0 for None
FindAgent(agents, agent_id) ==
    IF \E i \in 1..Len(agents) : agents[i].id = agent_id
    THEN CHOOSE i \in 1..Len(agents) :
            agents[i].id = agent_id /\ \A j \in 1..(i - 1) : agents[j].id # agent_id
    ELSE 0

\* (mutant) a new agent starts accepted
NewAgentAccepted(id, model_id, worktree_path) ==
    [id |-> id, model_id |-> model_id, worktree_path |-> worktree_path,
     status |-> "Idle", accepted |-> TRUE]

\* the TaskAgent pushed by create_task and add_agent_to_task
NewAgent(id, model_id, worktree_path) ==
    [id |-> id, model_id |-> model_id, worktree_path |-> worktree_path,
     status |-> "Idle", accepted |-> FALSE]

\* (mutant) the flags are left as they are
ClearAcceptedSkipped(agents) == agents

\* for agent in &mut task.agents { agent.accepted = false; }
ClearAccepted(agents) == [i \in 1..Len(agents) |-> [agents[i] EXCEPT !.accepted = FALSE]]

IsAccepted(a) == a.accepted

\* (mutant) every agent is kept
RetainAll(agents) == agents

\* task.agents.retain(|a| a.accepted)
RetainAccepted(agents) == SelectSeq(agents, IsAccepted)

\* task.agents.retain(|a| a.id != agent_id)
RetainOthers(agents, agent_id) ==
    LET Other(a) == a.id # agent_id IN SelectSeq(agents, Other)

\* (mutant) the error of a removal ends the cleanup
PropagateRemovalError(res) == res.ok

\* agent_operations.rs 311: `let _ = remove_worktree(..)`
SwallowRemovalError(res) == TRUE

\* the agents with accepted = false, as (id, worktree_path) pairs
AgentsToCleanup(agents) ==
    LET NotAccepted(a) == ~a.accepted
        un == SelectSeq(agents, NotAccepted)
    IN  [i \in 1..Len(un) |-> [id |-> un[i].id, path |-> un[i].worktree_path]]

\* the positions of the accepted agents
AcceptedAt(agents) == {i \in 1..Len(agents) : agents[i].accepted}

\* the loop of create_task over the models, from position idx on
RECURSIVE CreateAgents(_, _, _, _, _, _, _)
CreateAgents(G, name, task_folder, repo, ref, models, idx) ==
    IF idx > Len(models) THEN [ok |-> TRUE, G |-> G, agents |-> <<>>]
    ELSE LET dest == Join(task_folder,
                          <<DirName(WorktreeNameChars(name, models[idx]))>>)
         IN  The({
                IF ~cw.ok THEN [ok |-> FALSE, G |-> cw.G, agents |-> <<>>]
                ELSE The({
                    IF ~rest.ok THEN rest
                    ELSE [ok |-> TRUE, G |-> rest.G,
                          agents |-> <<NewAgent(AgentId(idx), models[idx], cw.path)>>
                                     \o rest.agents]
                    : rest \in {CreateAgents(cw.G, name, task_folder, repo, ref,
                                              models, idx + 1)}})
                : cw \in {create_worktree_at_path(G, repo, dest, ref)}})

\* (mutant) the worktrees created before the failure are rolled back
RolledBack(before, after) == before

\* task_operations.rs 167-171: the `?` returns the error at once; what the
\* earlier turns of the loop created stays
LeftBehind(before, after) == after

\* create_task: the task pushed to the store on success
create_task(G, task_id, name, ref, repo, models) ==
    IF TrimIsEmpty(name) \/ models = <<>>
    THEN [ok |-> FALSE, G |-> G, task |-> <<>>]
    ELSE LET task_folder == get_task_folder_path(task_id)
         IN  The({
                IF ~made.ok
                THEN [ok |-> FALSE, G |-> [G EXCEPT !.dirs = made.fs.dirs],
                      task |-> <<>>]
                ELSE The({
                    IF ~made_agents.ok
                    THEN [ok |-> FALSE, task |-> <<>>,
                          G |-> LeftBehind([G EXCEPT !.dirs = made.fs.dirs],
                                           made_agents.G)]
                    ELSE [ok |-> TRUE, G |-> made_agents.G,
                          task |-> <<[id |-> task_id, name |-> name,
                                      source_ref |-> ref, source_repo_path |-> repo,
                                      agents |-> made_agents.agents]>>]
                    : made_agents \in
                        {CreateAgents([G EXCEPT !.dirs = made.fs.dirs], name,
                                      task_folder, repo, ref, models, 1)}})
                : made \in {create_dir_all(FsOf(G), task_folder)}})

-----------------------------------------------------------------------------
(* Spec: the task store under any interleaving of its operations.  The     *)
(* section an operation runs under the store mutex is one step; the git    *)
(* calls that cleanup and remove_agent_from_task make outside the mutex    *)
(* are steps of their own, so other operations run in between.             *)

TaskIds == {"t1", "t2"}

\* generate_task_id: the id of the n-th task created
TaskIdAt(n) == IF n = 1 THEN "t1" ELSE "t2"

TaskNames == {<<"T">>, <<" ">>}

ModelIds == {<<"a">>, <<"C">>}

\* the models of a new task
ModelLists == {<<>>} \cup {<<m>> : m \in ModelIds}
                     \cup {<<m, n>> : m \in {<<"a">>}, n \in ModelIds}

SourceRefs == {Some("main")}

StatusArgs == {"Running"}

\* the delete_worktree argument of remove_agent_from_task
DeleteArgs == {TRUE}

\* the agent ids a caller passes
AgentIds == {AgentId(n) : n \in 1..MaxAgents}

Init ==
    /\ PathIdle
    /\ CmdIdle
    /\ ListIdle
    /\ WtIdle
    /\ InitGit
    /\ TaskIdle
    /\ LockIdle
    /\ RaceIdle
    /\ StoreIdle

\* state.save(): tasks.json is overwritten with the store
Saved(tasks) == tasks

\* an operation on a task while a cleanup of that task is in progress: the
\* cleanup no longer ran alone, and what the list was at its start is dropped
Touch(task_id) ==
    IF t_cleanup.pc # "idle" /\ t_cleanup.task = task_id
    THEN [t_cleanup EXCEPT !.interfered = TRUE, !.start = <<>>]
    ELSE t_cleanup

\* what a create_task call was given and found, kept for the properties
CreateCall(ok, task_id, name, ref, models) ==
    [op |-> "create_task", ok |-> ok, task |-> task_id, name |-> name,
     ref |-> ref, models |-> models, G |-> GState, tasks |-> t_tasks,
     file |-> t_file]

CreateTaskCall(names, lists, refs) ==
    \E task_id \in {TaskIdAt(Len(t_tasks) + 1)}, name \in names,
       models \in lists, ref \in refs :
        /\ Len(t_tasks) < MaxTasks
        /\ \E r \in {create_task(GState, task_id, name, ref, RepoPath, models)} :
               /\ SetGit(r.G)
               /\ t_tasks' = IF r.ok THEN t_tasks \o r.task ELSE t_tasks
               /\ t_file' = IF r.ok THEN Saved(t_tasks') ELSE t_file
               /\ t_last' = CreateCall(r.ok, task_id, name, ref, models)
        /\ UNCHANGED <<t_cleanup, t_remove>>
        /\ UNCHANGED <<t_faults, notTask>>

CreateTaskWith(lists) == CreateTaskCall(TaskNames, lists, SourceRefs)

CreateTask == CreateTaskWith(ModelLists)

AddAgentToTask ==
    \E task_id \in TaskIds, model_id \in ModelIds :
        LET i == FindTask(t_tasks, task_id)
        IN  /\ i # 0 => Len(t_tasks[i].agents) < MaxAgents
            /\ IF i = 0
               THEN UNCHANGED <<gitVars, t_tasks, t_file>>
               ELSE LET task == t_tasks[i]
                        agent_num == Len(task.agents) + 1
                        dest == Join(get_task_folder_path(task_id),
                                     <<DirName(WorktreeNameChars(task.name, model_id))>>)
                    IN  \E cw \in {create_worktree_at_path(GState, task.source_repo_path,
                                                         dest, task.source_ref)} :
                        /\ SetGit(cw.G)
                        /\ t_tasks' = IF cw.ok
                                      THEN [t_tasks EXCEPT ![i].agents =
                                              Append(@, NewAgent(AgentId(agent_num),
                                                                 model_id, cw.path))]
                                      ELSE t_tasks
                        /\ t_file' = IF cw.ok THEN Saved(t_tasks') ELSE t_file
            /\ t_cleanup' = Touch(task_id)
            /\ t_last' = NoCall
            /\ UNCHANGED t_remove
            /\ UNCHANGED <<t_faults, notTask>>

\* agent_operations.rs 76-95: the agent leaves the list under the mutex
RemoveAgentStart ==
    \E task_id \in TaskIds, agent_id \in AgentIds, delete_worktree \in DeleteArgs :
        LET i == FindTask(t_tasks, task_id)
            k == IF i = 0 THEN 0 ELSE FindAgent(t_tasks[i].agents, agent_id)
        IN  /\ t_remove.pc = "idle"
            /\ IF k = 0
               THEN UNCHANGED <<t_tasks, t_remove>>
               ELSE /\ t_tasks' = [t_tasks EXCEPT ![i].agents =
                                        RetainOthers(@, agent_id)]
                    /\ t_remove' = [pc |-> "worktree", task |-> task_id,
                                    path |-> t_tasks[i].agents[k].worktree_path,
                                    delete_worktree |-> delete_worktree]
            /\ t_cleanup' = Touch(task_id)
            /\ t_last' = NoCall
            /\ UNCHANGED <<gitVars, t_file>>
            /\ UNCHANGED <<t_faults, notTask>>

\* (mutant) the error of the removal is dropped
RemoveAgentResultIgnored(res) == TRUE

\* agent_operations.rs 99: `remove_worktree(..)?` returns the error
RemoveAgentResult(res) == res.ok

\* one fallible step of a call and how it ended
StepOf(kind, ok) == [kind |-> kind, ok |-> ok]

\* what a remove_agent_from_task call did and returned
RemoveCall(task_id, path, attempted, res) ==
    [op |-> "remove_agent_from_task", ok |-> RemoveAgentResult(res),
     task |-> task_id, path |-> path,
     steps |-> IF attempted THEN <<StepOf("agent worktree removal", res.ok)>>
               ELSE <<>>]

\* agent_operations.rs 97-107: the worktree is removed, then the store saved
RemoveAgentFinishWith(recorded) ==
    /\ t_remove.pc = "worktree"
    /\ \E attempted \in {t_remove.delete_worktree /\ Exists(GFs, t_remove.path)} :
       \E res \in {IF attempted
                   THEN remove_worktree(GState, t_remove.path, TRUE, FALSE, FALSE)
                   ELSE OpOk(GState)} :
           /\ SetGit(res.G)
           /\ t_file' = IF RemoveAgentResult(res) THEN Saved(t_tasks) ELSE t_file
           /\ t_last' = IF recorded
                        THEN RemoveCall(t_remove.task, t_remove.path, attempted, res)
                        ELSE NoCall
    /\ t_cleanup' = Touch(t_remove.task)
    /\ t_remove' = NoRemove
    /\ UNCHANGED t_tasks
    /\ UNCHANGED <<t_faults, notTask>>

RemoveAgentFinish == RemoveAgentFinishWith(FALSE)

UpdateAgentStatusCall(statuses) ==
    \E task_id \in TaskIds, agent_id \in AgentIds, status \in statuses :
        LET i == FindTask(t_tasks, task_id)
            k == IF i = 0 THEN 0 ELSE FindAgent(t_tasks[i].agents, agent_id)
        IN  /\ t_tasks' = IF k = 0 THEN t_tasks
                          ELSE [t_tasks EXCEPT ![i].agents[k].status = status]
            /\ t_file' = IF k = 0 THEN t_file ELSE Saved(t_tasks')
            /\ t_cleanup' = Touch(task_id)
            /\ t_last' = NoCall
            /\ UNCHANGED <<gitVars, t_remove>>
            /\ UNCHANGED <<t_faults, notTask>>

UpdateAgentStatus == UpdateAgentStatusCall(StatusArgs)

AcceptAgent ==
    \E task_id \in TaskIds, agent_id \in AgentIds :
        LET i == FindTask(t_tasks, task_id)
            cleared == ClearAccepted(t_tasks[i].agents)
            k == IF i = 0 THEN 0 ELSE FindAgent(cleared, agent_id)
        IN  /\ t_tasks' = IF i = 0 THEN t_tasks
                          ELSE IF k = 0 THEN [t_tasks EXCEPT ![i].agents = cleared]
                          ELSE [t_tasks EXCEPT ![i].agents =
                                    [cleared EXCEPT ![k].accepted = TRUE]]
            /\ t_file' = IF k = 0 THEN t_file ELSE Saved(t_tasks')
            /\ t_last' = [NoCall EXCEPT !.op = "accept", !.ok = k # 0,
                                        !.task = task_id, !.agent = agent_id,
                                        !.before = IF i = 0 THEN {}
                                                   ELSE AcceptedAt(t_tasks[i].agents)]
            /\ t_cleanup' = Touch(task_id)
            /\ UNCHANGED <<gitVars, t_remove>>
            /\ UNCHANGED <<t_faults, notTask>>

\* agent_operations.rs 293-306: the unaccepted agents are collected
CleanupStart ==
    \E task_id \in TaskIds :
        LET i == FindTask(t_tasks, task_id)
        IN  /\ t_cleanup.pc = "idle"
            /\ IF i = 0
               THEN /\ t_cleanup' = t_cleanup
                    /\ t_last' = [NoCall EXCEPT !.op = "cleanup", !.task = task_id]
               ELSE /\ t_cleanup' =
                        [pc |-> "remove", task |-> task_id,
                         todo |-> AgentsToCleanup(t_tasks[i].agents),
                         start |-> t_tasks[i].agents,
                         n |-> Len(AgentsToCleanup(t_tasks[i].agents)),
                         log |-> <<>>,
                         interfered |-> t_remove.pc # "idle" /\ t_remove.task = task_id]
                    /\ t_last' = NoCall
            /\ UNCHANGED <<gitVars, t_tasks, t_file, t_remove>>
            /\ UNCHANGED <<t_faults, notTask>>

\* agent_operations.rs 309-313: one turn of the removal loop
CleanupRemove ==
    /\ t_cleanup.pc = "remove"
    /\ t_cleanup.todo # <<>>
    /\ \E path \in {Head(t_cleanup.todo).path} :
       \E exists \in {Exists(GFs, path)} :
       \E res \in {IF exists THEN remove_worktree(GState, path, TRUE, FALSE, FALSE)
                   ELSE OpOk(GState)} :
       \E entry \in {[path |-> path, attempted |-> exists, ok |-> exists /\ res.ok]} :
           /\ SetGit(res.G)
           /\ IF SwallowRemovalError(res)
              THEN /\ t_cleanup' = [t_cleanup EXCEPT !.todo = Tail(@),
                                                     !.log = Append(@, entry)]
                   /\ t_last' = NoCall
              ELSE /\ t_cleanup' = NoCleanup
                   /\ t_last' = [NoCall EXCEPT !.op = "cleanup",
                                               !.task = t_cleanup.task,
                                               !.start = t_cleanup.start,
                                               !.n = t_cleanup.n,
                                               !.log = Append(t_cleanup.log, entry),
                                               !.interfered = t_cleanup.interfered]
    /\ UNCHANGED <<t_tasks, t_file, t_remove>>
    /\ UNCHANGED <<t_faults, notTask>>

\* the worktree paths of the agents that retain(|a| a.accepted) drops
DroppedPaths(agents) ==
    {agents[k].worktree_path : k \in {j \in 1..Len(agents) : ~agents[j].accepted}}

\* agent_operations.rs 316-330: the unaccepted agents leave the list, save
CleanupFinish ==
    /\ t_cleanup.pc = "remove"
    /\ t_cleanup.todo = <<>>
    /\ LET i == FindTask(t_tasks, t_cleanup.task)
       IN  t_tasks' = IF i = 0 THEN t_tasks
                      ELSE [t_tasks EXCEPT ![i].agents = RetainAccepted(@)]
    /\ t_file' = Saved(t_tasks')
    /\ t_last' = [NoCall EXCEPT !.op = "cleanup", !.ok = TRUE,
                                !.task = t_cleanup.task,
                                !.start = t_cleanup.start,
                                !.n = t_cleanup.n,
                                !.log = t_cleanup.log,
                                !.interfered = t_cleanup.interfered,
                                !.dropped =
                                    LET i == FindTask(t_tasks, t_cleanup.task)
                                    IN  IF i = 0 THEN {}
                                        ELSE DroppedPaths(t_tasks[i].agents)]
    /\ t_cleanup' = NoCleanup
    /\ UNCHANGED <<gitVars, t_remove>>
    /\ UNCHANGED <<t_faults, notTask>>

\* the directory of an agent's worktree is deleted behind git's back
WorktreeDirLost ==
    \E i \in 1..Len(g_wts) :
        /\ t_faults < MaxFaults
        /\ g_wts[i].path \in g_dirs
        /\ g_dirs' = g_dirs \ {g_wts[i].path}
        /\ t_faults' = t_faults + 1
        /\ UNCHANGED <<g_main, g_wts, g_branches>>
        /\ UNCHANGED <<t_tasks, t_file, t_cleanup, t_remove, t_last>>
        /\ UNCHANGED notTask

\* git loses the administrative entry of a worktree whose directory stays
\* (the entry was pruned while the directory was out of reach)
WorktreeAdminLost ==
    \E i \in 1..Len(g_wts) :
        /\ t_faults < MaxFaults
        /\ g_wts' = RemoveAt(g_wts, i)
        /\ t_faults' = t_faults + 1
        /\ UNCHANGED <<g_dirs, g_main, g_branches>>
        /\ UNCHANGED <<t_tasks, t_file, t_cleanup, t_remove, t_last>>
        /\ UNCHANGED notTask

Next ==
    \/ CreateTask
    \/ AddAgentToTask
    \/ RemoveAgentStart
    \/ RemoveAgentFinish
    \/ UpdateAgentStatus
    \/ AcceptAgent
    \/ CleanupStart
    \/ CleanupRemove
    \/ CleanupFinish

Spec == Init /\ [][Next]_vars

-----------------------------------------------------------------------------
(* C3, C4 *)

AgentsOf(task_id) ==
    LET i == FindTask(t_tasks, task_id)
    IN  IF i = 0 THEN <<>> ELSE t_tasks[i].agents

\* C3: after accept_agent(task, a) returns Ok, exactly one agent of the task
\* has accepted = true and it is the agent found for a, whichever agent was
\* accepted before.
C3_AcceptExactlyOne ==
    (t_last.op = "accept" /\ t_last.ok) =>
        LET agents == AgentsOf(t_last.task)
        IN  /\ Cardinality(AcceptedAt(agents)) = 1
            /\ AcceptedAt(agents) = {FindAgent(agents, t_last.agent)}

\* C3 witness: accept_agent returned Ok for an agent while another agent of
\* the task was the accepted one
C3_Witness ==
    /\ t_last.op = "accept"
    /\ t_last.ok
    /\ t_last.before # {}
    /\ t_last.before # AcceptedAt(AgentsOf(t_last.task))

\* C4: in every reachable state each task has at most one agent with
\* accepted = true.
C4_AtMostOneAccepted ==
    \A i \in 1..Len(t_tasks) : Cardinality(AcceptedAt(t_tasks[i].agents)) <= 1

\* C4 witness: a task of several agents has its accepted agent while a cleanup
\* of the task is under way and another operation ran in between
C4_Witness ==
    /\ t_cleanup.pc = "remove"
    /\ t_cleanup.interfered
    /\ \E i \in 1..Len(t_tasks) :
            /\ Len(t_tasks[i].agents) >= 2
            /\ Cardinality(AcceptedAt(t_tasks[i].agents)) = 1

-----------------------------------------------------------------------------
(* SpecCleanup: cleanup_unaccepted_agents on a task of two or three agents, *)
(* with accept_agent running at any point and worktrees damaged from       *)
(* outside                                                                 *)

\* the models the task under cleanup is created with
CleanupModelLists == {<<<<"a">>, <<"C">>>>, <<<<"a">>, <<"b">>, <<"C">>>>}

CreateTaskForCleanup == CreateTaskWith(CleanupModelLists)

NextCleanup ==
    \/ CreateTaskForCleanup
    \/ AcceptAgent
    \/ CleanupStart
    \/ CleanupRemove
    \/ CleanupFinish
    \/ WorktreeDirLost
    \/ WorktreeAdminLost

SpecCleanup == Init /\ [][NextCleanup]_vars

-----------------------------------------------------------------------------
(* C5, C6 *)

\* the agents a cleanup dropped: those not accepted when it started
Dropped(call) == {j \in 1..Len(call.start) : ~call.start[j].accepted}

RemovalFailed(call, path) ==
    \E l \in 1..Len(call.log) :
        call.log[l].path = path /\ call.log[l].attempted /\ ~call.log[l].ok

\* C5 (as claimed): after a cleanup that ran alone returns Ok, the task's
\* agent list is exactly the agents accepted when it started, and the
\* worktree directory of every dropped agent no longer exists.
C5_DroppedDirsGone ==
    (t_last.op = "cleanup" /\ t_last.ok /\ ~t_last.interfered) =>
        /\ AgentsOf(t_last.task) = SelectSeq(t_last.start, IsAccepted)
        /\ \A j \in Dropped(t_last) : t_last.start[j].worktree_path \notin g_dirs

\* C5 (amended): after a cleanup that ran alone returns Ok, the task's agent
\* list is exactly the agents accepted when it started, and the worktree
\* directory of every dropped agent no longer exists unless the removal of
\* that worktree failed.
C5_DroppedDirsGoneUnlessFailed ==
    (t_last.op = "cleanup" /\ t_last.ok /\ ~t_last.interfered) =>
        /\ AgentsOf(t_last.task) = SelectSeq(t_last.start, IsAccepted)
        /\ \A j \in Dropped(t_last) :
                \/ t_last.start[j].worktree_path \notin g_dirs
                \/ RemovalFailed(t_last, t_last.start[j].worktree_path)

\* C5 witness: a cleanup that ran alone after an accept kept the accepted
\* agent and removed the directories of the two others
C5_Witness ==
    /\ t_last.op = "cleanup"
    /\ t_last.ok
    /\ ~t_last.interfered
    /\ Len(t_last.start) = 3
    /\ Len(AgentsOf(t_last.task)) = 1
    /\ Cardinality(Dropped(t_last)) = 2
    /\ \A l \in 1..Len(t_last.log) : t_last.log[l].attempted /\ t_last.log[l].ok
    /\ \A j \in Dropped(t_last) : t_last.start[j].worktree_path \notin g_dirs

\* C6: a cleanup of an existing task returns Ok whatever its removals did:
\* every unaccepted agent collected had its turn in the removal loop, no
\* unaccepted agent is left in the task's list, and the store is saved.
C6_BestEffort ==
    (t_last.op = "cleanup" /\ FindTask(t_tasks, t_last.task) # 0) =>
        /\ t_last.ok
        /\ Len(t_last.log) = t_last.n
        /\ \A j \in 1..Len(AgentsOf(t_last.task)) : AgentsOf(t_last.task)[j].accepted
        /\ t_file = t_tasks

\* C6 witness: the removal of one worktree failed, the removal of a later
\* one was still attempted and succeeded, and the cleanup returned Ok
C6_Witness ==
    /\ t_last.op = "cleanup"
    /\ t_last.ok
    /\ \E j, k \in 1..Len(t_last.log) :
            /\ j < k
            /\ t_last.log[j].attempted /\ ~t_last.log[j].ok
            /\ t_last.log[k].attempted /\ t_last.log[k].ok

-----------------------------------------------------------------------------
(* SpecCreate: create_task over names that are empty, blank, punctuation   *)
(* only or several words, over model lists that are empty, repeat a slug   *)
(* or have up to three models, and over source references git knows or not *)

CreateNames == {<<>>, <<" ">>, <<"T">>, <<"!">>, <<"T", " ", "b">>}

CreateModelLists ==
    {<<>>,
     <<<<"a">>>>,
     <<<<"a">>, <<"C">>>>,
     <<<<"C">>, <<"c">>>>,
     <<<<"a">>, <<"C">>, <<"a", "/", "b">>>>,
     <<<<"a">>, <<"C">>, <<"a">>>>}

CreateRefs == {Some("main"), Some("gone"), None}

\* calls are made while failed ones have left fewer than MaxLinked worktrees
CreateTaskAny ==
    /\ Len(g_wts) < MaxLinked
    /\ CreateTaskCall(CreateNames, CreateModelLists, CreateRefs)

NextCreate == CreateTaskAny

SpecCreate == Init /\ [][NextCreate]_vars

-----------------------------------------------------------------------------
(* C11 *)

\* <slug(task-name)>-<slug(model-id)> as a directory of the task's folder
ExpectedWorktreePath(task_id, name, model_id) ==
    Join(Join(Join(AristarBase, <<"tasks">>), <<task_id>>),
         <<DirName(slugify(name) \o <<"-">> \o slugify_model_id(model_id))>>)

\* C11: when create_task succeeds for a non-empty name and N >= 1 models, the
\* stored task has exactly N agents with ids agent-1..agent-N in model order,
\* every agent is Idle and not accepted, the worktree paths are pairwise
\* distinct, and each is the directory <slug(name)>-<slug(model)> directly
\* inside <root>/tasks/<task_id>.
C11_CreatedAgents ==
    (t_last.op = "create_task" /\ t_last.ok) =>
        LET agents == AgentsOf(t_last.task)
            N == Len(t_last.models)
        IN  /\ N >= 1
            /\ Len(agents) = N
            /\ \A i \in 1..N :
                /\ agents[i].id = <<"agent", i>>
                /\ agents[i].model_id = t_last.models[i]
                /\ agents[i].status = "Idle"
                /\ agents[i].accepted = FALSE
                /\ agents[i].worktree_path =
                        ExpectedWorktreePath(t_last.task, t_last.name, t_last.models[i])
                /\ agents[i].worktree_path \in g_dirs
            /\ \A i, j \in 1..N :
                i # j => agents[i].worktree_path # agents[j].worktree_path

\* C11 witness: a task of three models was created under a name of two words
C11_Witness ==
    /\ t_last.op = "create_task"
    /\ t_last.ok
    /\ t_last.name = <<"T", " ", "b">>
    /\ Len(AgentsOf(t_last.task)) = 3

-----------------------------------------------------------------------------
(* C12 *)

\* the inventory entry git keeps for a worktree added with --detach
DetachedEntry(path) ==
    [path |-> path, branch |-> <<>>, locked |-> FALSE, reason |-> <<>>]

\* the worktrees of the first n models of a create_task call
FirstWorktrees(call, n) ==
    [j \in 1..n |-> DetachedEntry(ExpectedWorktreePath(call.task, call.name,
                                                       call.models[j]))]

\* git refuses the worktree of the j-th model: the source reference is
\* unknown, or the destination is there already, from before the call or
\* from an earlier model of the call
CreationFails(call, j) ==
    LET dest(i) == ExpectedWorktreePath(call.task, call.name, call.models[i])
    IN  \/ call.ref # <<>> /\ call.ref[1] \notin call.G.branches \cup {"sha"}
        \/ dest(j) \in call.G.dirs
        \/ \E w \in 1..Len(call.G.wts) : call.G.wts[w].path = dest(j)
        \/ \E i \in 1..(j - 1) : dest(i) = dest(j)

\* a create_task call that passed validation and failed
CreateFailedInLoop ==
    /\ t_last.op = "create_task"
    /\ ~t_last.ok
    /\ \E i \in 1..Len(t_last.name) : t_last.name[i] # " "
    /\ Len(t_last.models) >= 1

\* C12: when worktree creation fails for the k-th of N models, create_task
\* returns the error, no task is added to the store or the tasks file, no
\* further worktree is created, and the k-1 worktrees created before stay in
\* git's inventory and on disk.
C12_NoRollback ==
    CreateFailedInLoop =>
        /\ t_tasks = t_last.tasks
        /\ t_file = t_last.file
        /\ \E k \in 1..Len(t_last.models) :
            /\ CreationFails(t_last, k)
            /\ \A j \in 1..(k - 1) : ~CreationFails(t_last, j)
            /\ g_wts = t_last.G.wts \o FirstWorktrees(t_last, k - 1)
            /\ \A j \in 1..(k - 1) :
                ExpectedWorktreePath(t_last.task, t_last.name, t_last.models[j])
                    \in g_dirs

\* C12 witness: creation failed for the third model and the worktrees of the
\* first two are in the inventory and on disk
C12_Witness ==
    /\ CreateFailedInLoop
    /\ Len(t_last.models) = 3
    /\ Len(g_wts) = Len(t_last.G.wts) + 2
    /\ \A j \in 1..2 :
        ExpectedWorktreePath(t_last.task, t_last.name, t_last.models[j]) \in g_dirs

-----------------------------------------------------------------------------
(* C13 *)

\* the name is empty or only whitespace, or there is no model
CreateArgsInvalid(call) ==
    \/ \A i \in 1..Len(call.name) : call.name[i] = " "
    \/ Len(call.models) = 0

\* C13: create_task with a name that is empty or only whitespace, or with an
\* empty model list, returns an error and has no effect: no task folder and
\* no worktree is created, and the store is unchanged in memory and on file.
C13_InvalidArgsNoEffect ==
    (t_last.op = "create_task" /\ CreateArgsInvalid(t_last)) =>
        /\ ~t_last.ok
        /\ g_dirs = t_last.G.dirs
        /\ g_wts = t_last.G.wts
        /\ g_branches = t_last.G.branches
        /\ t_tasks = t_last.tasks
        /\ t_file = t_last.file

\* C13 witness: a call with a blank name and two models was refused before
\* its task folder existed
C13_Witness ==
    /\ t_last.op = "create_task"
    /\ ~t_last.ok
    /\ t_last.name = <<" ">>
    /\ Len(t_last.models) = 2
    /\ <<"h", "w", "tasks", t_last.task>> \notin g_dirs

-----------------------------------------------------------------------------
(* SpecLock: the store locks.  An operation is the sequence of what it     *)
(* does to the locks and of the subprocesses it runs, in the order of its  *)
(* code; the git commands of one operations.rs call are one subprocess.    *)
(* A guard taken in a block is released where the block ends.              *)

Acq(l) == <<"acquire", l, "w">>

AcqRead(l) == <<"acquire", l, "r">>

Rel(l) == <<"release", l>>

\* run_git_command: Command::new("git")...output() starts git and waits
GitCall == << <<"spawn">>, <<"reap">> >>

\* TaskManagerState::save: the mutex is held while tasks.json is written
SaveTasks == <<Acq("tasks"), Rel("tasks")>>

\* AppState::save: a read lock is held while the store is written
SaveRepos == <<AcqRead("repos"), Rel("repos")>>

Program(op) ==
    CASE op = "create_task" ->
            GitCall \o <<Acq("tasks"), Rel("tasks")>> \o SaveTasks
      [] op = "add_agent_to_task" ->
            <<Acq("tasks")>> \o GitCall \o <<Rel("tasks")>> \o SaveTasks
      [] op = "remove_agent_from_task" ->
            <<Acq("tasks"), Rel("tasks")>> \o GitCall \o SaveTasks
      [] op = "accept_agent" ->
            <<Acq("tasks"), Rel("tasks")>> \o SaveTasks
      [] op = "cleanup_unaccepted_agents" ->
            <<Acq("tasks"), Rel("tasks")>> \o GitCall
                \o <<Acq("tasks"), Rel("tasks")>> \o SaveTasks
      [] op = "delete_task" ->
            <<Acq("tasks"), Rel("tasks")>> \o GitCall
                \o <<Acq("tasks"), Rel("tasks")>> \o SaveTasks
      [] op = "refresh_repository" ->
            <<Acq("repos")>> \o GitCall \o <<Rel("repos")>> \o SaveRepos
      [] op = "create_worktree" ->
            GitCall \o <<Acq("repos"), Rel("repos")>> \o SaveRepos

StoreOps == {"create_task", "add_agent_to_task", "remove_agent_from_task",
             "accept_agent", "cleanup_unaccepted_agents", "delete_task",
             "refresh_repository", "create_worktree"}

\* the instruction a thread is at, <<"return">> past the last one
Instr(t) ==
    IF l_pc[t].op = "idle" THEN <<"idle">>
    ELSE IF l_pc[t].at > Len(Program(l_pc[t].op)) THEN <<"return">>
    ELSE Program(l_pc[t].op)[l_pc[t].at]

Step(t) == [l_pc EXCEPT ![t].at = @ + 1]

\* the locks a thread holds
HeldBy(t) == {l \in StoreLocks : \E h \in l_locks[l] : h[1] = t}

InitLock ==
    /\ PathIdle
    /\ CmdIdle
    /\ GitIdle
    /\ ListIdle
    /\ WtIdle
    /\ TaskIdle
    /\ LockIdle
    /\ RaceIdle
    /\ StoreIdle

\* a command handler starts on a thread
Begin ==
    \E t \in Threads, op \in StoreOps :
        /\ l_pc[t].op = "idle"
        /\ l_pc' = [l_pc EXCEPT ![t] = [op |-> op, at |-> 1]]
        /\ UNCHANGED <<l_locks, l_sub>>
        /\ UNCHANGED notLock

\* Mutex::lock, RwLock::write and RwLock::read: the thread waits until the
\* lock can be taken
Acquire ==
    \E t \in Threads :
        /\ Instr(t)[1] = "acquire"
        /\ LET l == Instr(t)[2]
               mode == Instr(t)[3]
           IN  /\ IF mode = "w" THEN l_locks[l] = {}
                  ELSE \A h \in l_locks[l] : h[2] = "r"
               /\ l_locks' = [l_locks EXCEPT ![l] = @ \cup {<<t, mode>>}]
        /\ l_pc' = Step(t)
        /\ UNCHANGED l_sub
        /\ UNCHANGED notLock

\* the guard goes out of scope
Release ==
    \E t \in Threads :
        /\ Instr(t)[1] = "release"
        /\ l_locks' = [l_locks EXCEPT ![Instr(t)[2]] = {h \in @ : h[1] # t}]
        /\ l_pc' = Step(t)
        /\ UNCHANGED l_sub
        /\ UNCHANGED notLock

\* the subprocess starts
SpawnSubprocess ==
    \E t \in Threads :
        /\ Instr(t)[1] = "spawn"
        /\ l_sub' = l_sub \cup {t}
        /\ l_pc' = Step(t)
        /\ UNCHANGED l_locks
        /\ UNCHANGED notLock

\* the subprocess ends and its output is read
ReapSubprocess ==
    \E t \in Threads :
        /\ Instr(t)[1] = "reap"
        /\ l_sub' = l_sub \ {t}
        /\ l_pc' = Step(t)
        /\ UNCHANGED l_locks
        /\ UNCHANGED notLock

\* the handler returns
Return ==
    \E t \in Threads :
        /\ Instr(t)[1] = "return"
        /\ l_pc' = [l_pc EXCEPT ![t] = NoThreadOp]
        /\ UNCHANGED <<l_locks, l_sub>>
        /\ UNCHANGED notLock

NextLock ==
    \/ Begin
    \/ Acquire
    \/ Release
    \/ SpawnSubprocess
    \/ ReapSubprocess
    \/ Return

SpecLock == InitLock /\ [][NextLock]_vars

-----------------------------------------------------------------------------
(* C14 *)

\* C14: in no reachable state does a thread hold the task-store mutex or the
\* repository-store lock while a subprocess it started is running.
C14_NoLockAcrossSubprocess ==
    \A t \in Threads : t \in l_sub => HeldBy(t) = {}

-----------------------------------------------------------------------------
(* C15 *)

\* C15: in every reachable state of the task store the ids of the agents of
\* one task are pairwise distinct.
C15_DistinctAgentIds ==
    \A i \in 1..Len(t_tasks) :
        \A j, k \in 1..Len(t_tasks[i].agents) :
            j # k => t_tasks[i].agents[j].id # t_tasks[i].agents[k].id

-----------------------------------------------------------------------------
(* SpecStatus: update_agent_status with every value of AgentStatus on the  *)
(* agents of a task, among the operations that keep the agents in place    *)

\* enum AgentStatus
AgentStatuses == {"Idle", "Running", "Paused", "Completed", "Failed"}

UpdateAgentStatusAny == UpdateAgentStatusCall(AgentStatuses)

NextStatus ==
    \/ CreateTask
    \/ AddAgentToTask
    \/ AcceptAgent
    \/ UpdateAgentStatusAny

SpecStatus == Init /\ [][NextStatus]_vars

-----------------------------------------------------------------------------
(* C16 *)

\* the agent state machine of the specification
AllowedStatusChanges ==
    {<<"Idle", "Running">>, <<"Running", "Completed">>, <<"Running", "Failed">>,
     <<"Running", "Paused">>, <<"Paused", "Running">>}

\* C16: every change of an agent's status follows the state machine
\* Idle -> Running, Running -> Completed | Failed | Paused, Paused -> Running;
\* no other status change occurs.
C16_StatusMachine ==
    [][\A i \in 1..Len(t_tasks) :
         Len(t_tasks') = Len(t_tasks) =>
            \A k \in 1..Len(t_tasks[i].agents) :
                Len(t_tasks'[i].agents) = Len(t_tasks[i].agents) =>
                    \/ t_tasks'[i].agents[k].status = t_tasks[i].agents[k].status
                    \/ <<t_tasks[i].agents[k].status, t_tasks'[i].agents[k].status>>
                            \in AllowedStatusChanges]_vars

-----------------------------------------------------------------------------
(* SpecBranch: remove_worktree on repositories whose linked worktrees are  *)
(* on protected branches, on other branches or detached, locked or not     *)

BranchPaths == {CreatePath(<<"a">>), CreatePath(<<"b">>)}

BranchNames == {"main", "master", "develop", "development", "f"}

BranchEntries ==
    [path : BranchPaths, branch : {None} \cup {Some(b) : b \in BranchNames},
     locked : BOOLEAN, reason : {None}]

\* git has a branch checked out in one worktree at most
BranchLists ==
    {q \in UNION {[1..n -> BranchEntries] : n \in 0..MaxLinked} :
        \A i, j \in 1..Len(q) :
            i # j => /\ q[i].path # q[j].path
                     /\ q[i].branch = None \/ q[i].branch # q[j].branch}

InitBranch ==
    /\ PathIdle
    /\ CmdIdle
    /\ ListIdle
    /\ TaskIdle
    /\ LockIdle
    /\ RaceIdle
    /\ StoreIdle
    /\ g_main \in {[bare |-> FALSE, branch |-> Some("main")],
                   [bare |-> FALSE, branch |-> Some("trunk")]}
    /\ g_wts \in {q \in BranchLists :
                    \A i \in 1..Len(q) : q[i].branch # g_main.branch}
    /\ g_dirs = BaseDirs \cup PathsOf(g_wts)
    /\ g_branches = BranchNames \cup {"trunk"}
    /\ w_last = NoOp

\* the branch the inventory shows at a path, None when detached or not listed
ListedBranch(G, path) ==
    LET inv == Inventory(G)
        at  == {i \in 1..Len(inv) : inv[i].path = path}
    IN  IF at = {} THEN None ELSE inv[CHOOSE i \in at : TRUE].branch

RemoveWorktreeAny ==
    \E path \in BranchPaths \cup {RepoPath}, force \in BOOLEAN,
       delete_branch \in BOOLEAN, merged \in BOOLEAN :
        /\ merged => (delete_branch /\ ~force)
        /\ \E r \in {remove_worktree(GState, path, force, delete_branch, merged)} :
               /\ SetGit(r.G)
               /\ w_last' = [op |-> "remove", ok |-> r.ok, path |-> path,
                             force |-> force, delete_branch |-> delete_branch,
                             merged |-> merged,
                             listed |-> path \in PathsOf(g_wts),
                             wasLocked |-> ListedLocked(GState, path),
                             branch |-> ListedBranch(GState, path),
                             git |-> r.git]
        /\ UNCHANGED notWt

NextBranch == RemoveWorktreeAny

SpecBranch == InitBranch /\ [][NextBranch]_vars

-----------------------------------------------------------------------------
(* C17 *)

\* the positions of the `git branch` commands among the commands a call ran
BranchDeletions(log) == {i \in 1..Len(log) : log[i].cmd = "branch"}

\* C17: remove_worktree never issues a branch deletion for main, master,
\* develop or development, whatever force and delete_branch are, and issues
\* none at all when delete_branch is false or the worktree is detached.
C17_ProtectedBranchesKept ==
    w_last.op = "remove" =>
        /\ \A i \in BranchDeletions(w_last.git) :
                w_last.git[i].arg[1] \notin {"main", "master", "develop", "development"}
        /\ (~w_last.delete_branch \/ w_last.branch = <<>>) =>
                BranchDeletions(w_last.git) = {}

\* C17 witness: a worktree on develop was removed with delete_branch = true
\* and force = true, and no branch deletion was issued
C17_Witness ==
    /\ w_last.op = "remove"
    /\ w_last.ok
    /\ w_last.delete_branch
    /\ w_last.force
    /\ w_last.branch = <<"develop">>
    /\ BranchDeletions(w_last.git) = {}
    /\ "develop" \in g_branches

-----------------------------------------------------------------------------
(* C18 *)

\* the position of a command among those a call ran, 0 when it did not run
RanAt(log, cmd) ==
    IF \E i \in 1..Len(log) : log[i].cmd = cmd
    THEN CHOOSE i \in 1..Len(log) : log[i].cmd = cmd
    ELSE 0

\* a call with delete_branch = true on a listed worktree
RemoveWithBranch ==
    /\ w_last.op = "remove"
    /\ w_last.delete_branch
    /\ w_last.listed

\* C18: with delete_branch = true the branch is read from the inventory
\* before `git worktree remove` runs and its deletion is attempted only after
\* the removal succeeded: when the removal fails the error is returned and no
\* branch deletion is attempted; when the removal succeeds and the branch
\* deletion fails, remove_worktree still returns Ok; the deletion uses -D when
\* force = true and -d otherwise.
C18_BranchAfterRemoval ==
    RemoveWithBranch =>
        LET log == w_last.git
            removalRefused == w_last.wasLocked /\ ~w_last.force
            unprotected == /\ w_last.branch # <<>>
                           /\ w_last.branch[1] \notin
                                {"main", "master", "develop", "development"}
        IN  /\ RanAt(log, "worktree list") # 0
            /\ RanAt(log, "worktree list") < RanAt(log, "worktree remove")
            /\ removalRefused =>
                /\ ~w_last.ok
                /\ BranchDeletions(log) = {}
                /\ w_last.path \in PathsOf(g_wts)
                /\ w_last.branch # <<>> => w_last.branch[1] \in g_branches
            /\ ~removalRefused =>
                /\ w_last.ok
                /\ w_last.path \notin PathsOf(g_wts)
                /\ unprotected =>
                    /\ Cardinality(BranchDeletions(log)) = 1
                    /\ RanAt(log, "branch") = Len(log)
                    /\ RanAt(log, "worktree remove") < RanAt(log, "branch")
                    /\ log[Len(log)].arg = w_last.branch
                    /\ log[Len(log)].flag = IF w_last.force THEN "-D" ELSE "-d"
                    /\ (w_last.force \/ w_last.merged) <=>
                            w_last.branch[1] \notin g_branches

\* C18 witness: the worktree was removed, `git branch -d` refused the
\* unmerged branch, and remove_worktree returned Ok with the branch in place
C18_Witness ==
    /\ RemoveWithBranch
    /\ w_last.ok
    /\ ~w_last.force
    /\ ~w_last.merged
    /\ w_last.branch = <<"f">>
    /\ BranchDeletions(w_last.git) # {}
    /\ "f" \in g_branches
    /\ w_last.path \notin PathsOf(g_wts)

-----------------------------------------------------------------------------
(* C19 *)

\* a create_task call with valid arguments none of whose worktrees is
\* refused for its destination or for an unknown reference
NothingInTheWay(call) ==
    /\ call.op = "create_task"
    /\ ~CreateArgsInvalid(call)
    /\ \A j \in 1..Len(call.models) : ~CreationFails(call, j)

\* C19: create_worktree_at_path always creates the worktree detached: calls
\* with pairwise distinct destinations from one source branch never fail
\* because the branch is checked out already, and every worktree they create
\* has no branch in the inventory.
C19_AlwaysDetached ==
    /\ NothingInTheWay(t_last) => t_last.ok
    /\ \A i \in 1..Len(Inventory(GState)) :
            Inventory(GState)[i].is_main \/ Inventory(GState)[i].branch = <<>>

\* C19 witness: three worktrees were created from the branch main, which the
\* main worktree has checked out, and the inventory shows them without branch
C19_Witness ==
    /\ t_last.op = "create_task"
    /\ t_last.ok
    /\ t_last.ref = <<"main">>
    /\ g_main.branch = <<"main">>
    /\ Len(t_last.models) = 3
    /\ Cardinality({i \in 1..Len(Inventory(GState)) :
                        /\ ~Inventory(GState)[i].is_main
                        /\ Inventory(GState)[i].branch = <<>>}) = 3

-----------------------------------------------------------------------------
(* Which failures an operation returns: delete_task, the OpenCode servers  *)
(* of a task, remove_agent_from_task and cleanup_unaccepted_agents, with   *)
(* worktrees whose administrative entry git has lost.                      *)

\* task_operations.rs 268-273: the worktrees of the agents are removed in
\* turn, `let _ =` drops the result of each removal
RECURSIVE DeleteWorktrees(_, _, _)
DeleteWorktrees(G, agents, steps) ==
    IF agents = <<>> THEN [G |-> G, steps |-> steps]
    ELSE The({ The({ DeleteWorktrees(res.G, Tail(agents),
                        IF exists
                        THEN Append(steps, StepOf("task worktree removal", res.ok))
                        ELSE steps)
                   : res \in {IF exists
                              THEN remove_worktree(G, Head(agents).worktree_path,
                                                   TRUE, FALSE, FALSE)
                              ELSE OpOk(G)} })
             : exists \in {Exists(FsOf(G), Head(agents).worktree_path)} })

\* std::fs::remove_dir_all(task_folder) when it succeeds
RemoveDirAll(G, folder) ==
    [G EXCEPT !.dirs = {d \in @ : ~StartsWith(d, folder)}]

\* what a delete_task call did and returned
DeleteCall(ok, task_id, steps) ==
    [op |-> "delete_task", ok |-> ok, task |-> task_id, steps |-> steps]

\* delete_task(task_id, delete_worktrees); folder_ok is whether the file
\* system lets the task folder be removed
DeleteTask ==
    \E task_id \in TaskIds, delete_worktrees \in BOOLEAN, folder_ok \in BOOLEAN :
        LET i == FindTask(t_tasks, task_id)
            OtherTask(t) == t.id # task_id
        IN  IF i = 0
            THEN /\ t_last' = DeleteCall(FALSE, task_id,
                                         <<StepOf("task lookup", FALSE)>>)
                 /\ UNCHANGED <<gitVars, t_tasks, t_file, t_cleanup, t_remove>>
                 /\ UNCHANGED <<t_faults, notTask>>
            ELSE \E d \in {IF delete_worktrees
                           THEN DeleteWorktrees(GState, t_tasks[i].agents, <<>>)
                           ELSE [G |-> GState, steps |-> <<>>]} :
                 \E folder_exists \in {delete_worktrees
                                       /\ Exists(FsOf(d.G), get_task_folder_path(task_id))} :
                     /\ SetGit(IF folder_exists /\ folder_ok
                               THEN RemoveDirAll(d.G, get_task_folder_path(task_id))
                               ELSE d.G)
                     /\ t_tasks' = SelectSeq(t_tasks, OtherTask)
                     /\ t_file' = Saved(t_tasks')
                     /\ t_cleanup' = Touch(task_id)
                     /\ t_last' = DeleteCall(TRUE, task_id,
                            d.steps \o IF folder_exists
                                       THEN <<StepOf("task folder removal", folder_ok)>>
                                       ELSE <<>>)
                     /\ UNCHANGED t_remove
                     /\ UNCHANGED <<t_faults, notTask>>

\* what a call on the OpenCode servers did and returned; info is what the
\* call found and chose
OpenCall(op, ok, task_id, steps, info) ==
    [op |-> op, ok |-> ok, task |-> task_id, steps |-> steps, info |-> info]

\* the ports pick_unused_port can return
MaxPorts == 2

Ports == 1..MaxPorts

InstancePaths(instances) == {i.path : i \in instances}

UsedPorts(instances) == {i.port : i \in instances}

\* (mutant) start never finds an instance
HasInstanceNever(instances, path) == FALSE

\* opencode.rs 80: instances.get(&worktree_path)
HasInstance(instances, path) == path \in InstancePaths(instances)

PortOf(instances, path) == (CHOOSE i \in instances : i.path = path).port

\* pick_unused_port: any port no server listens on
AnyFree(used) == Ports \ used

\* the lowest such port, where the choice does not matter
LowestFree(used) == {p \in Ports \ used : \A q \in Ports \ used : p <= q}

StartInfo(path, had, spawned, port) ==
    [path |-> path, had |-> had, spawned |-> spawned, port |-> port]

\* start_agent_opencode(task_id, agent_id), with OpenCodeManager::start run
\* under the instances mutex; spawned is whether the opencode binary started
StartAgentOpencodeWith(lowest) ==
    \E task_id \in TaskIds, agent_id \in AgentIds, spawned \in BOOLEAN :
        LET i == FindTask(t_tasks, task_id)
            k == IF i = 0 THEN 0 ELSE FindAgent(t_tasks[i].agents, agent_id)
            path == t_tasks[i].agents[k].worktree_path
            free == IF lowest THEN LowestFree(UsedPorts(o_instances))
                    ELSE AnyFree(UsedPorts(o_instances))
        IN  /\ IF k = 0
               THEN /\ o_instances' = o_instances
                    /\ t_last' = OpenCall("start_agent_opencode", FALSE, task_id,
                                          <<StepOf("agent lookup", FALSE)>>,
                                          StartInfo(<<>>, FALSE, FALSE, 0))
               ELSE IF HasInstance(o_instances, path)
               THEN /\ o_instances' = o_instances
                    /\ t_last' = OpenCall("start_agent_opencode", TRUE, task_id, <<>>,
                                          StartInfo(path, TRUE, FALSE,
                                                    PortOf(o_instances, path)))
               ELSE IF free = {}
               THEN /\ o_instances' = o_instances
                    /\ t_last' = OpenCall("start_agent_opencode", FALSE, task_id,
                                          <<StepOf("port pick", FALSE)>>,
                                          StartInfo(path, FALSE, FALSE, 0))
               ELSE \E port \in free :
                    /\ o_instances' = IF spawned
                                      THEN o_instances \cup {[path |-> path, port |-> port]}
                                      ELSE o_instances
                    /\ t_last' = OpenCall("start_agent_opencode", spawned, task_id,
                                          <<StepOf("server start", spawned)>>,
                                          StartInfo(path, path \in InstancePaths(o_instances),
                                                    spawned, port))
            /\ UNCHANGED <<gitVars, t_tasks, t_file, t_cleanup, t_remove, t_faults>>
            /\ UNCHANGED notTaskOpen

StartAgentOpencode == StartAgentOpencodeWith(TRUE)

\* instances.remove(worktree_path)
WithoutPath(instances, path) == {i \in instances : i.path # path}

\* commands.rs 256-259: OpenCodeManager::stop for each worktree path in turn,
\* `let _ =` drops its result; the kill of the servers in failing fails
RECURSIVE StopAll(_, _, _, _)
StopAll(instances, paths, failing, steps) ==
    IF paths = <<>> THEN [instances |-> instances, steps |-> steps]
    ELSE StopAll(WithoutPath(instances, Head(paths)), Tail(paths), failing,
                 IF Head(paths) \in InstancePaths(instances)
                 THEN Append(steps, StepOf("server stop", Head(paths) \notin failing))
                 ELSE steps)

\* stop_task_all_opencode(task_id)
StopTaskAllOpencode ==
    \E task_id \in TaskIds :
        LET i == FindTask(t_tasks, task_id)
            worktree_paths == [k \in 1..Len(t_tasks[i].agents) |->
                                  t_tasks[i].agents[k].worktree_path]
        IN  /\ IF i = 0
               THEN /\ o_instances' = o_instances
                    /\ t_last' = OpenCall("stop_task_all_opencode", FALSE, task_id,
                                          <<StepOf("task lookup", FALSE)>>, <<>>)
               ELSE \E failing \in SUBSET InstancePaths(o_instances) :
                    \E r \in {StopAll(o_instances, worktree_paths, failing, <<>>)} :
                        /\ o_instances' = r.instances
                        /\ t_last' = OpenCall("stop_task_all_opencode", TRUE,
                                              task_id, r.steps, worktree_paths)
            /\ UNCHANGED <<gitVars, t_tasks, t_file, t_cleanup, t_remove, t_faults>>
            /\ UNCHANGED notTaskOpen

RemoveAgentFinishLogged == RemoveAgentFinishWith(TRUE)

\* the models of the task whose operations fail
ErrorModelLists == {<<<<"a">>, <<"C">>>>}

CreateTaskForErrors == CreateTaskWith(ErrorModelLists)

NextErrors ==
    \/ CreateTaskForErrors
    \/ RemoveAgentStart
    \/ RemoveAgentFinishLogged
    \/ CleanupStart
    \/ CleanupRemove
    \/ CleanupFinish
    \/ DeleteTask
    \/ StartAgentOpencode
    \/ StopTaskAllOpencode
    \/ WorktreeAdminLost

SpecErrors == Init /\ [][NextErrors]_vars

\* the operations whose steps are recorded one by one
SteppedOps ==
    {"delete_task", "remove_agent_from_task", "start_agent_opencode",
     "stop_task_all_opencode"}

\* the fallible steps of the call that returned last, in order
StepsOf(call) ==
    IF call.op \in SteppedOps THEN call.steps
    ELSE IF call.op = "cleanup"
    THEN [i \in 1..Len(call.log) |->
             StepOf("cleanup worktree removal",
                    call.log[i].attempted => call.log[i].ok)]
    ELSE IF call.op = "create_task"
    THEN [j \in 1..Len(call.models) |->
             StepOf("agent worktree creation", ~CreationFails(call, j))]
    ELSE <<>>

\* the kinds of the steps of StepsOf(call) that failed
FailedKinds(call) ==
    {StepsOf(call)[i].kind : i \in {j \in 1..Len(StepsOf(call)) : ~StepsOf(call)[j].ok}}

\* the steps the claim lets fail without the call failing (the branch
\* deletion is not a step of any of these operations: each of them calls
\* remove_worktree with delete_branch = false)
TwoExceptions == {"branch deletion", "cleanup worktree removal"}

\* the steps whose result the code drops
DroppedResults ==
    TwoExceptions \cup {"task worktree removal", "task folder removal", "server stop"}

-----------------------------------------------------------------------------
(* C21, C25, C26: what an operation that returns an error leaves behind *)

\* no operation on the task store is in progress
StoreQuiet == t_cleanup.pc = "idle" /\ t_remove.pc = "idle"

\* C21: whenever no operation is in progress, the tasks file holds the
\* in-memory task list, whether the operations returned Ok or an error
C21_FileEqualsStore == StoreQuiet => t_file = t_tasks

\* C25: accept_agent with an agent id that is not in the task returns an
\* error and every agent's accepted flag keeps the value it had
C25_FailedAcceptKeepsFlags ==
    (/\ t_last.op = "accept"
     /\ ~t_last.ok
     /\ FindTask(t_tasks, t_last.task) # 0)
        => AcceptedAt(AgentsOf(t_last.task)) = t_last.before

\* C26: when the worktree removal of remove_agent_from_task fails, the call
\* returns the error and the agent is still in the task, in the store and
\* in the tasks file
C26_FailedRemovalKeepsAgent ==
    (/\ t_last.op = "remove_agent_from_task"
     /\ ~t_last.ok
     /\ FindTask(t_tasks, t_last.task) # 0)
        => /\ \E k \in 1..Len(AgentsOf(t_last.task)) :
                  AgentsOf(t_last.task)[k].worktree_path = t_last.path
           /\ FindTask(t_file, t_last.task) # 0
           /\ \E k \in 1..Len(t_file[FindTask(t_file, t_last.task)].agents) :
                  t_file[FindTask(t_file, t_last.task)].agents[k].worktree_path
                      = t_last.path

-----------------------------------------------------------------------------
(* SpecRace: create_worktree calls for one name running at the same time,  *)
(* one per thread.  Each git subprocess is one step; what another call     *)
(* does between two steps is visible to the next step.                     *)

\* the names the calls race for
RaceNames == {<<"a">>, <<"x", "a">>}

\* the branch-or-commit argument: none, a commit, an existing branch
RaceRefs == {None, Some("sha"), Some("f")}

\* a call that has not returned
Running(t) == k_calls[t].pc \notin {"idle", "done"}

Returned(t, ret) == [k_calls EXCEPT ![t].pc = "done", ![t].ret = ret]

\* (mutant) the result of `git worktree add` is dropped
AddFailedIgnored(add) == FALSE

\* operations.rs 424: `run_git_command(&args, &repo_path_str)?`
AddFailed(add) == ~add.ok

\* operations.rs 405-414: the repository path is canonicalized and the
\* container of the repository is made
RaceBegin(t) ==
    \E name \in RaceNames, ref \in RaceRefs, sc \in ScriptArgs :
        /\ k_calls[t].pc = "idle"
        /\ \A u \in Threads : k_calls[u].pc # "idle" => k_calls[u].name = name
        /\ SetGit(ensure_repo_info(GState))
        /\ k_calls' = [k_calls EXCEPT ![t] =
                          [pc |-> "add", name |-> name, ref |-> ref,
                           script |-> sc[1], execute |-> sc[2], ret |-> "none"]]
        /\ UNCHANGED notRace

\* operations.rs 416-424: `git worktree add <path> [<ref>]`
RaceGitAdd(t) ==
    /\ k_calls[t].pc = "add"
    /\ \E add \in {GitWorktreeAdd(GState, CreatePath(k_calls[t].name),
                                  k_calls[t].ref, FALSE)} :
           IF AddFailed(add)
           THEN /\ k_calls' = Returned(t, "git")
                /\ UNCHANGED gitVars
           ELSE /\ k_calls' = [k_calls EXCEPT ![t].pc = "list"]
                /\ SetGit(add.G)
    /\ UNCHANGED notRace

\* operations.rs 426-431: the new worktree is looked up in the inventory
RaceList(t) ==
    /\ k_calls[t].pc = "list"
    /\ \E ls \in {list_worktrees(GFs, g_main, g_wts, RepoPath)} :
           k_calls' =
               IF ~ls.ok THEN Returned(t, "list")
               ELSE IF ~\E i \in 1..Len(ls.list) :
                           ls.list[i].path = CreatePath(k_calls[t].name)
               THEN Returned(t, "Failed to find created worktree")
               ELSE IF k_calls[t].script = "none" THEN Returned(t, "ok")
               ELSE [k_calls EXCEPT ![t].pc = "script"]
    /\ UNCHANGED gitVars
    /\ UNCHANGED notRace

\* operations.rs 433-448: the script is written and, if asked, run
RaceScript(t) ==
    /\ k_calls[t].pc = "script"
    /\ k_calls' = IF k_calls[t].execute /\ k_calls[t].script = "fail"
                  THEN Returned(t, "script")
                  ELSE Returned(t, "ok")
    /\ SetGit(WriteScript(GState, CreatePath(k_calls[t].name)))
    /\ UNCHANGED notRace

InitRace ==
    /\ PathIdle
    /\ CmdIdle
    /\ ListIdle
    /\ WtIdle
    /\ InitGit
    /\ TaskIdle
    /\ LockIdle
    /\ RaceIdle
    /\ StoreIdle

NextRace ==
    \E t \in Threads :
        \/ RaceBegin(t)
        \/ RaceGitAdd(t)
        \/ RaceList(t)
        \/ RaceScript(t)

SpecRace == InitRace /\ [][NextRace]_vars

\* every thread made its call and every call returned
AllReturned == \A t \in Threads : k_calls[t].pc = "done"

\* the calls that returned the new worktree
Winners == {t \in Threads : k_calls[t].pc = "done" /\ k_calls[t].ret = "ok"}

\* the linked worktrees git has at the path the calls raced for
AtRacedPath ==
    {i \in 1..Len(g_wts) :
        \E t \in Threads : k_calls[t].pc # "idle"
                           /\ g_wts[i].path = CreatePath(k_calls[t].name)}

\* the startup script of no call fails
NoScriptFails ==
    \A t \in Threads : ~(k_calls[t].execute /\ k_calls[t].script = "fail")

\* C22: create calls for the same repository and name never both succeed,
\* under every interleaving of their steps; once all have returned the
\* inventory holds exactly one worktree at the path, every call but one
\* returned git's error, and that one returned the new worktree (unless its
\* own startup script failed)
C22_OneCreateWins ==
    /\ Cardinality(Winners) <= 1
    /\ Cardinality(AtRacedPath) <= 1
    /\ AllReturned =>
           /\ Cardinality(AtRacedPath) = 1
           /\ Cardinality({t \in Threads : k_calls[t].ret = "git"})
                  = MaxThreads - 1
           /\ NoScriptFails => Cardinality(Winners) = 1

\* both calls had passed ensure_repo_info before either ran git, and both
\* returned: one with the worktree, the other with git's error
C22_Witness ==
    /\ AllReturned
    /\ NoScriptFails
    /\ Cardinality(Winners) = 1
    /\ \E t \in Threads : k_calls[t].ret = "git"

-----------------------------------------------------------------------------
(* SpecScript: create with a startup script, and the removals that follow *)

CreateWorktreeScripted == CreateWorktreeCall(Names, ScriptArgs)

NextScript ==
    \/ CreateWorktreeScripted
    \/ RemoveWorktree

SpecScript == InitWt /\ [][NextScript]_vars

\* the last call was a create whose startup script ran and exited non-zero
ScriptFailedCreate ==
    /\ w_last.op = "create"
    /\ ~w_last.ok
    /\ w_last.err = "script"

\* C23: when the startup script of create exits non-zero, create returns the
\* script's error and does not roll back: list_worktrees contains the new
\* worktree and the script file is still inside it
C23_ScriptFailureKeepsWorktree ==
    ScriptFailedCreate =>
        /\ EntriesAt(Inventory(GState), w_last.path) # {}
        /\ w_last.path \in PathsOf(g_wts)
        /\ Join(w_last.path, <<ScriptFile>>) \in g_dirs

C23_Witness ==
    /\ ScriptFailedCreate
    /\ w_last.name = <<"x", "a">>
    /\ Len(g_wts) = 2

-----------------------------------------------------------------------------
(* SpecName: create with any name string: plain, with a separator, with    *)
(* `..` segments, absolute                                                 *)

AnyNames ==
    {<<"a">>, <<"x", "a">>, <<ParentDir, "a">>, <<ParentDir, ParentDir, "a">>,
     <<RootDir, "h", "a">>}

CreateWorktreeNamed == CreateWorktreeCall(AnyNames, {<<"none", FALSE>>})

NextName ==
    \/ CreateWorktreeNamed
    \/ RemoveWorktree

SpecName == InitWt /\ [][NextName]_vars

\* C24: every worktree made by create lies directly inside the repository's
\* container <worktree-root>/<repo_hash>/, whatever the name; none lies
\* outside the managed worktree root
C24_InsideContainer ==
    \A i \in 1..Len(g_wts) :
        /\ Parent(g_wts[i].path) = WorktreeBase
        /\ StartsWith(g_wts[i].path, AristarBase)

-----------------------------------------------------------------------------
(* C27 *)

\* the worktree paths cleanup ran a removal for
RemovalAttempted(call) ==
    {call.log[i].path : i \in {j \in 1..Len(call.log) : call.log[j].attempted}}

\* the worktree paths cleanup went through, removal run or directory absent
Visited(call) == {call.log[i].path : i \in 1..Len(call.log)}

\* C27: under every interleaving of cleanup_unaccepted_agents with
\* accept_agent or add_agent_to_task on the task, once the calls have
\* returned, cleanup ran no worktree removal for an agent that is still in
\* the list, and it went through the worktree of every agent it dropped
C27_CleanupMatchesList ==
    (t_last.op = "cleanup" /\ t_last.ok) =>
        /\ \A k \in 1..Len(AgentsOf(t_last.task)) :
               AgentsOf(t_last.task)[k].worktree_path \notin RemovalAttempted(t_last)
        /\ t_last.dropped \subseteq Visited(t_last)

-----------------------------------------------------------------------------
(* SpecStore: the commands of worktrees/commands.rs, which run the          *)
(* operation and then bring the repository's entry of the store in line.    *)

notStore == <<pathVars, cmdVars, listVars, taskVars, lockVars, openVars, raceVars>>

\* the paths a caller passes for the worktree created as "a" and as "b": as
\* the store has them, and spelled with a `..` segment
StorePaths ==
    {CreatePath(<<n>>) : n \in {"a", "b"}}
        \cup {Join(CreatePath(<<n>>), <<ParentDir, n>>) : n \in {"a", "b"}}

\* state.save(): the store file is overwritten with the store
SavedStore(store) == [store EXCEPT !.file = store.worktrees]

\* what a command was given and returned; loc is where path led when called
CmdCall(op, ok, path) ==
    [op |-> op, ok |-> ok, path |-> path, loc |-> Location(GFs, path)]

\* add_repository(path), refresh_repository(id): the inventory is stored
ScanRepository ==
    \E path \in RepoArgs :
    \E ls \in {list_worktrees(GFs, g_main, g_wts, Canonicalize(GFs, path).path)} :
        /\ s_store' = IF ls.ok
                      THEN SavedStore([s_store EXCEPT !.added = TRUE,
                                                      !.worktrees = ls.list])
                      ELSE s_store
        /\ w_last' = CmdCall("scan", ls.ok, path)
        /\ UNCHANGED gitVars
        /\ UNCHANGED notStore

\* repo.worktrees.push(new_worktree) unless the path is there already
PushWorktree(worktrees, new_worktree) ==
    IF \E i \in 1..Len(worktrees) : worktrees[i].path = new_worktree.path
    THEN worktrees
    ELSE Append(worktrees, new_worktree)

\* commands.rs create_worktree: the repository is looked up by the repo_path
\* string as given
CreateWorktreeCmd ==
    \E n \in {"a", "b"}, repo_path \in RepoArgs :
    \E r \in {create_worktree(GState, repo_path, <<n>>, None, None, "none", FALSE)} :
        /\ Len(g_wts) < MaxLinked
        /\ SetGit(r.G)
        /\ s_store' =
              IF ~r.ok THEN s_store
              ELSE IF s_store.added /\ repo_path = RepoPath
              THEN SavedStore([s_store EXCEPT !.worktrees =
                      PushWorktree(@, The({e \in {Inventory(r.G)[i] :
                                                    i \in 1..Len(Inventory(r.G))} :
                                              e.path = CreatePath(<<n>>)}))])
              ELSE SavedStore(s_store)
        /\ w_last' = CmdCall("create_cmd", r.ok, CreatePath(<<n>>))
        /\ UNCHANGED notStore

\* commands.rs 146, 187, 206: `w.path == path`, a comparison of strings
SamePath(entry_path, path) == entry_path = path

\* repo.worktrees.retain(|w| w.path != path)
RetainOtherPaths(worktrees, path) ==
    LET Other(w) == ~SamePath(w.path, path) IN SelectSeq(worktrees, Other)

\* the first entry with w.path == path gets is_locked and lock_reason
SetLocked(worktrees, path, locked, reason) ==
    LET hits == {i \in 1..Len(worktrees) : SamePath(worktrees[i].path, path)}
    IN  IF hits = {} THEN worktrees
        ELSE [worktrees EXCEPT
                 ![CHOOSE i \in hits : \A j \in hits : i <= j] =
                     [@ EXCEPT !.is_locked = locked, !.lock_reason = reason]]

\* commands.rs remove_worktree(path, force, delete_branch)
RemoveWorktreeCmd ==
    \E path \in StorePaths, force \in BOOLEAN :
    \E r \in {remove_worktree(GState, path, force, FALSE, FALSE)} :
        /\ SetGit(r.G)
        /\ s_store' = IF r.ok
                      THEN SavedStore([s_store EXCEPT !.worktrees =
                                           RetainOtherPaths(@, path)])
                      ELSE s_store
        /\ w_last' = CmdCall("remove_cmd", r.ok, path)
        /\ UNCHANGED notStore

\* commands.rs lock_worktree(path, reason)
LockWorktreeCmd ==
    \E path \in StorePaths :
    \E r \in {lock_worktree(GState, path, None)} :
        /\ SetGit(r.G)
        /\ s_store' = IF r.ok
                      THEN SavedStore([s_store EXCEPT !.worktrees =
                                           SetLocked(@, path, TRUE, None)])
                      ELSE s_store
        /\ w_last' = CmdCall("lock_cmd", r.ok, path)
        /\ UNCHANGED notStore

\* commands.rs unlock_worktree(path)
UnlockWorktreeCmd ==
    \E path \in StorePaths :
    \E r \in {unlock_worktree(GState, path)} :
        /\ SetGit(r.G)
        /\ s_store' = IF r.ok
                      THEN SavedStore([s_store EXCEPT !.worktrees =
                                           SetLocked(@, path, FALSE, None)])
                      ELSE s_store
        /\ w_last' = CmdCall("unlock_cmd", r.ok, path)
        /\ UNCHANGED notStore

NextStore ==
    \/ ScanRepository
    \/ CreateWorktreeCmd
    \/ RemoveWorktreeCmd
    \/ LockWorktreeCmd
    \/ UnlockWorktreeCmd

SpecStore == InitWt /\ [][NextStore]_vars

\* the entries a list has for a location
StoredAt(worktrees, loc) == {i \in 1..Len(worktrees) : worktrees[i].path = loc}

\* C28: after the remove_worktree command returns Ok for a path, neither the
\* store nor the store file lists a worktree at the removed location; after
\* the lock_worktree / unlock_worktree command returns Ok, the entry stored
\* for the worktree has is_locked true / false; also when the path given is
\* not spelled as the canonical path of the entry
C28_StoreFollowsCommands ==
    /\ (w_last.op = "remove_cmd" /\ w_last.ok) =>
           /\ StoredAt(s_store.worktrees, w_last.loc) = {}
           /\ StoredAt(s_store.file, w_last.loc) = {}
    /\ (w_last.op = "lock_cmd" /\ w_last.ok) =>
           /\ \A i \in StoredAt(s_store.worktrees, w_last.loc) :
                  s_store.worktrees[i].is_locked
           /\ \A i \in StoredAt(s_store.file, w_last.loc) : s_store.file[i].is_locked
    /\ (w_last.op = "unlock_cmd" /\ w_last.ok) =>
           /\ \A i \in StoredAt(s_store.worktrees, w_last.loc) :
                  ~s_store.worktrees[i].is_locked
           /\ \A i \in StoredAt(s_store.file, w_last.loc) : ~s_store.file[i].is_locked

-----------------------------------------------------------------------------
(* SpecOpen: the OpenCode servers of the agents of a task.  start and stop *)
(* hold the instances mutex from their first line to their return, so each *)
(* is one step and concurrent calls are calls in some order.               *)

StartAgentOpencodeAny == StartAgentOpencodeWith(FALSE)

\* stop_agent_opencode(task_id, agent_id): OpenCodeManager::stop removes the
\* instance, then kills the process; killed is whether the kill succeeds
StopAgentOpencode ==
    \E task_id \in TaskIds, agent_id \in AgentIds, killed \in BOOLEAN :
        LET i == FindTask(t_tasks, task_id)
            k == IF i = 0 THEN 0 ELSE FindAgent(t_tasks[i].agents, agent_id)
            path == t_tasks[i].agents[k].worktree_path
        IN  /\ IF k = 0
               THEN /\ o_instances' = o_instances
                    /\ t_last' = OpenCall("stop_agent_opencode", FALSE, task_id,
                                          <<StepOf("agent lookup", FALSE)>>, <<>>)
               ELSE \E r \in {StopAll(o_instances, <<path>>,
                                      IF killed THEN {} ELSE {path}, <<>>)} :
                    /\ o_instances' = r.instances
                    /\ t_last' = OpenCall("stop_agent_opencode",
                                          \A n \in 1..Len(r.steps) : r.steps[n].ok,
                                          task_id, r.steps, <<path>>)
            /\ UNCHANGED <<gitVars, t_tasks, t_file, t_cleanup, t_remove, t_faults>>
            /\ UNCHANGED notTaskOpen

NextOpen ==
    \/ CreateTask
    \/ StartAgentOpencodeAny
    \/ StopAgentOpencode
    \/ StopTaskAllOpencode

SpecOpen == Init /\ [][NextOpen]_vars

\* the last call was a start that got as far as the manager
ManagerStart == t_last.op = "start_agent_opencode" /\ t_last.info.path # <<>>

\* the last call was a stop that got as far as the manager
ManagerStop ==
    /\ t_last.op \in {"stop_agent_opencode", "stop_task_all_opencode"}
    /\ t_last.info # <<>>

\* C29: the manager holds at most one instance per worktree path; start on a
\* path that has an instance returns that instance's port and spawns nothing,
\* so starts of one path spawn one process and return one port; after stop
\* of a path returns, Ok or error, the path has no instance (get_port is
\* None, is_running is false)
C29_OneInstancePerPath ==
    /\ \A a, b \in o_instances : a.path = b.path => a = b
    /\ (ManagerStart /\ t_last.info.had) =>
           /\ t_last.ok
           /\ ~t_last.info.spawned
    /\ (ManagerStart /\ t_last.ok) =>
           [path |-> t_last.info.path, port |-> t_last.info.port] \in o_instances
    /\ (ManagerStart /\ ~t_last.ok) => ~HasInstance(o_instances, t_last.info.path)
    /\ ManagerStop =>
           \A n \in 1..Len(t_last.info) :
               ~HasInstance(o_instances, t_last.info[n])

\* start on a path whose server runs, with a second server running
C29_Witness ==
    /\ ManagerStart
    /\ t_last.info.had
    /\ Cardinality(o_instances) = 2

-----------------------------------------------------------------------------
(* C30: the file a command string names *)

\* the components of a path string: the pieces between separators, without
\* the empty ones and `.`
RECURSIVE SplitSlash(_, _)
SplitSlash(str, cur) ==
    LET done == IF cur = <<>> \/ cur = <<".">> THEN <<>> ELSE <<cur>>
    IN  IF str = <<>> THEN done
        ELSE IF Head(str) = "/" THEN done \o SplitSlash(Tail(str), <<>>)
        ELSE SplitSlash(Tail(str), Append(cur, Head(str)))

\* the location the components lead to from the root, `..` taken as the
\* parent directory
RECURSIVE Climb(_, _)
Climb(comps, at) ==
    IF comps = <<>> THEN at
    ELSE IF Head(comps) = <<".", ".">>
    THEN Climb(Tail(comps), IF at = <<>> THEN <<>> ELSE SubSeq(at, 1, Len(at) - 1))
    ELSE Climb(Tail(comps), Append(at, Head(comps)))

\* the file the command string names
Denoted(cmd) == Climb(SplitSlash(cmd, <<>>), <<>>)

\* the allow-listed directories
AllowedDirs == {Denoted(allowed_prefixes[i]) : i \in 1..Len(allowed_prefixes)}

\* C30: every command string validate_custom_command accepts names a file
\* inside one of the allow-listed directories, also when it has `..`
\* segments after the allow-listed prefix
C30_AcceptedInsideAllowed ==
    (c_pc = "done" /\ c_ret = "ok") =>
        \E d \in AllowedDirs :
            /\ Len(Denoted(c_cmd)) > Len(d)
            /\ SubSeq(Denoted(c_cmd), 1, Len(d)) = d

=============================================================================
